---- MODULE Spec2Model ----
(***************************************************************************)
(* Psy2Bib mobile client: the Zero-Knowledge patient vault (crypto/zk.ts), *)
(* the authentication context (hooks/useAuth.tsx), the HTTP client session *)
(* storage (api/client.ts) and the screens that call them.                 *)
(*                                                                         *)
(* Cryptography is symbolic.  Every JavaScript value is a tagged tuple     *)
(* <<tag, ...>>: byte arrays are <<"rnd", n, r>> (n random bytes, entropy  *)
(* r), <<"utf8", s>>, <<"sha256", b>>, <<"argon2id", ...>>,                *)
(* <<"gcm", key, iv, plaintext>> or <<"junk", x>>; strings are             *)
(* <<"str", s>>, <<"b64", bytes>> or <<"jsontext", tokens>>; objects are   *)
(* <<"obj", pairs>> with pairs in insertion order.  Argon2id and SHA-256   *)
(* are injective and AES-GCM decrypts exactly what was encrypted under the *)
(* same key and IV and rejects everything else.                            *)
(***************************************************************************)
EXTENDS Integers, Sequences, FiniteSets, TLC

VARIABLES
    labPc,          \* vault exercise: "start", "built", "corrupted", "opened"
    labPw,          \* password given to buildPatientZkPayload
    labDoc,         \* profile document given to buildPatientZkPayload
    labBuilt,       \* what buildPatientZkPayload returned
    labPayload,     \* {salt, encryptedMasterKey, encryptedProfile} as received
    labCase,        \* how labPayload differs from what was built
    labOpenPw,      \* password given to decryptPatientVault
    labRes,         \* what decryptPatientVault did: <<"ok", v>> or <<"throw", e>>
    \* hooks/useAuth.tsx, AuthProvider state
    user,           \* AuthUser or null
    ctxPatientVault,\* PatientVault or null (the context's patientVault)
    loading,        \* TRUE until the stored session has been looked up
    \* api/client.ts, module-level variables
    accessToken,
    refreshToken,
    userId,
    userPseudo,
    patientVault,
    store,          \* expo-secure-store: key -> string or null
    \* the backend
    srvAccount,     \* the account stored for the e-mail address, or null
    sent,           \* requests the most recent handler sent, in order
    \* history
    lastOp,         \* the handler that ran last
    lastResult,     \* how it ended: "ok", "throw", "error", "nokey", "none"
    lastOpen,       \* what decryptPatientVault did in the last login
    lastCase,       \* how the last login response differed from what is stored
    lastPassword,   \* password typed into this process last, if any
    hist,           \* registration password and key, latest saved profile
    \* encryption operations under a generator that never repeats
    drawn,          \* number of Crypto.getRandomBytes calls made so far
    encLog,         \* the ciphertexts produced so far, one per encryption, in order
    ivKey,          \* master key of the vault built last (base64), if any
    \* conversation keys
    keyPc,          \* "start", "conversation", "threads"
    ids,            \* identifiers of four users: [a, b, c, d]
    screenKeys,     \* material and key of the conversation screens
    previewKeys,    \* keys of the thread-list previews
    \* a conversation between AccountId (sending) and PeerId (reading)
    chatPc,         \* "compose", "stored", "rendered", "listed", "downloaded"
    messages,       \* the conversation as the backend returns it
    posted,         \* what each message was made from, and how it was damaged since
    blobs,          \* the uploaded attachment of each message, or null
    shown,          \* what rendering the conversation gave
    subtitle,       \* what the thread list shows for the conversation
    downloaded,     \* what handleDownload did
    \* derivePasswordHash, encryptGCM and decryptGCM applied to given arguments
    fnPc,           \* "start", "hashed", "encrypted", "decrypted"
    fnArgs,         \* [e1, e2, pw1, pw2, key, plaintext]
    hashes,         \* results of derivePasswordHash
    sealed,         \* result of encryptGCM
    unsealed,       \* result of decryptGCM
    \* the conversation screen with its cache directory
    scrPc,          \* "closed", "open"
    scrUser,        \* useAuth().user as the screen sees it
    scrPeer,        \* route.params?.peerId
    inbox,          \* the screen's messages
    cacheDir,       \* FileSystem.cacheDirectory: the files in it, [uri, content]
    wire,           \* every request the screen sent, in order
    scrOp,          \* the handler that ran last and where it failed, if it did
    written,        \* uris the attachment handler that ran last wrote
    \* api/client.ts: requests under way, and the backend's tokens
    reqs,           \* the requests made through `api`, by slot
    srvAccess,      \* numbers of the access tokens the backend accepts
    srvRefresh,     \* numbers of the refresh tokens the backend accepts
    srvUsed,        \* numbers of the refresh tokens already exchanged
    issued,         \* number of token pairs issued so far
    loggedOut,      \* handleLogout has completed and nobody has logged in since
    \* authStorage calls followed one SecureStore call at a time
    job,            \* the authStorage call under way and its position
    \* the patient's appointments
    appts,          \* the backend's appointments of the patient, by id
    slots,          \* the backend's availabilities: "free", "mine", "other"
    selected,       \* selectedAppointment
    available,      \* availableSlots
    modal,          \* rescheduleModalVisible
    schedOp         \* the handler that ran last and how it ended

labVars == <<labPc, labPw, labDoc, labBuilt, labPayload, labCase, labOpenPw, labRes>>

ctxVars == <<user, ctxPatientVault, loading>>

memVars == <<accessToken, refreshToken, userId, userPseudo, patientVault, store>>

histVars == <<lastOp, lastResult, lastOpen, lastCase, lastPassword, hist>>

appVars == <<user, ctxPatientVault, loading, accessToken, refreshToken, userId, userPseudo,
             patientVault, store, srvAccount, sent, lastOp, lastResult, lastOpen, lastCase,
             lastPassword, hist>>

vars == <<labPc, labPw, labDoc, labBuilt, labPayload, labCase, labOpenPw, labRes,
          user, ctxPatientVault, loading, accessToken, refreshToken, userId, userPseudo,
          patientVault, store, srvAccount, sent, lastOp, lastResult, lastOpen, lastCase,
          lastPassword, hist, drawn, encLog, ivKey, keyPc, ids, screenKeys, previewKeys,
          chatPc, messages, posted, blobs, shown, subtitle, downloaded,
          fnPc, fnArgs, hashes, sealed, unsealed,
          scrPc, scrUser, scrPeer, inbox, cacheDir, wire, scrOp, written,
          reqs, srvAccess, srvRefresh, srvUsed, issued, loggedOut, job,
          appts, slots, selected, available, modal, schedOp>>

ivVars == <<drawn, encLog, ivKey>>

keyVars == <<keyPc, ids, screenKeys, previewKeys>>

chatVars == <<chatPc, messages, posted, blobs, shown, subtitle, downloaded>>

fnVars == <<fnPc, fnArgs, hashes, sealed, unsealed>>

sendVars == <<scrPc, scrUser, scrPeer, inbox, cacheDir, wire, scrOp, written>>

netVars == <<reqs, srvAccess, srvRefresh, srvUsed, issued, loggedOut>>

bootVars == <<job>>

schedVars == <<appts, slots, selected, available, modal, schedOp>>

\* everything but the variables of the session
benchVars == <<labVars, ivVars, keyVars, chatVars, fnVars, sendVars, netVars, bootVars,
               schedVars>>

\* everything but the variables of one exercise
exceptLab == <<appVars, ivVars, keyVars, chatVars, fnVars, sendVars,
              netVars, bootVars, schedVars>>
exceptIv == <<appVars, labVars, keyVars, chatVars, fnVars, sendVars,
              netVars, bootVars, schedVars>>
exceptKey == <<appVars, labVars, ivVars, chatVars, fnVars, sendVars,
              netVars, bootVars, schedVars>>
exceptChat == <<appVars, labVars, ivVars, keyVars, fnVars, sendVars,
              netVars, bootVars, schedVars>>
exceptFn == <<appVars, labVars, ivVars, keyVars, chatVars, sendVars,
              netVars, bootVars, schedVars>>
exceptSend == <<appVars, labVars, ivVars, keyVars, chatVars, fnVars,
               netVars, bootVars, schedVars>>
exceptSched == <<appVars, labVars, ivVars, keyVars, chatVars, fnVars, sendVars,
                netVars, bootVars>>

\* what the requests under way leave alone
exceptNet == <<labVars, ivVars, keyVars, chatVars, fnVars, sendVars, bootVars, schedVars>>
netFrame == <<loading, srvAccount, sent, lastOp, lastResult, lastOpen, lastCase,
              lastPassword, hist>>

\* what the authStorage calls leave alone
exceptBoot == <<labVars, ivVars, keyVars, chatVars, fnVars, sendVars, netVars, schedVars>>

----------------------------------------------------------------------------
(* Bounds *)

NumEntropy == 2     \* distinct outcomes of one Crypto.getRandomBytes call
NumKeys == 1        \* the same, for the draws made while a session is set up
NumTokens == 1      \* distinct token pairs the backend issues
NumClock == 1       \* distinct readings of the clock
MaxThread == 2      \* messages in the conversation that is read
MaxIdLen == 2       \* longest user identifier, in characters
MaxDraws == 8       \* getRandomBytes calls followed under the generator that never repeats
MaxWire == 3        \* requests followed on one conversation screen
NumRequests == 2    \* requests followed, which can be under way at the same time
MaxIssued == 2      \* token pairs the backend issues
MaxAttempts == 3    \* sends, and refreshes, followed for one request
NumSlots == 2       \* availabilities of the psychologist
MaxAppointments == 3 \* appointments the patient makes

Entropy == 1..NumEntropy
KeyEntropy == 1..NumKeys
TokenIds == 1..NumTokens
Clock == 1..NumClock
SlotIds == 1..NumSlots

----------------------------------------------------------------------------
(* JavaScript values *)

Null == <<"null">>
Undefined == <<"undefined">>
Str(s) == <<"str", s>>
Obj(pairs) == <<"obj", pairs>>
EmptyObj == Obj(<<>>)

\* `!v` for the values the code tests
Falsy(v) == v \in {Null, Undefined, Str(""), <<"chars", <<>>>>}

Ok(v) == <<"ok", v>>
Throw(e) == <<"throw", e>>
IsOk(r) == r[1] = "ok"
IsThrow(r) == r[1] = "throw"

\* a ?? b
Coalesce(a, b) == IF a \in {Null, Undefined} THEN b ELSE a

RECURSIVE GetIn(_, _)
GetIn(pairs, k) ==
    IF pairs = <<>> THEN Undefined
    ELSE LET p == pairs[Len(pairs)]
         IN IF p[1] = k THEN p[2] ELSE GetIn(SubSeq(pairs, 1, Len(pairs) - 1), k)

\* o?.k : undefined when o is null or undefined
Get(o, k) == IF o[1] = "obj" THEN GetIn(o[2], k) ELSE Undefined

HasKey(o, k) == o[1] = "obj" /\ \E i \in DOMAIN o[2] : o[2][i][1] = k

\* { ...o, k: v } : an existing key keeps its position
Set(o, k, v) ==
    LET pairs == IF o[1] = "obj" THEN o[2] ELSE <<>>
    IN IF \E i \in DOMAIN pairs : pairs[i][1] = k
       THEN Obj([i \in DOMAIN pairs |-> IF pairs[i][1] = k THEN <<k, v>> ELSE pairs[i]])
       ELSE Obj(Append(pairs, <<k, v>>))

RECURSIVE SpreadIn(_, _)
SpreadIn(o, pairs) ==
    IF pairs = <<>> THEN o
    ELSE SpreadIn(Set(o, Head(pairs)[1], Head(pairs)[2]), Tail(pairs))

\* { ...a, ...b }
Spread(a, b) ==
    SpreadIn(IF a[1] = "obj" THEN a ELSE EmptyObj, IF b[1] = "obj" THEN b[2] ELSE <<>>)

\* the object without key k (rest pattern `const { k, ...rest } = o`)
Omit(o, k) == Obj(SelectSeq(o[2], LAMBDA p : p[1] # k))

----------------------------------------------------------------------------
(* JSON *)

SyntaxError == Str("SyntaxError: JSON Parse error")

\* members of an object in order, those whose value is undefined left out
RECURSIVE Flatten(_)
Flatten(pairs) ==
    IF pairs = <<>> THEN <<>>
    ELSE LET p == Head(pairs)
         IN (IF p[2] = Undefined THEN <<>> ELSE <<p[1], p[2]>>) \o Flatten(Tail(pairs))

RECURSIVE Unflatten(_)
Unflatten(toks) ==
    IF Len(toks) < 2 THEN <<>>
    ELSE << <<toks[1], toks[2]>> >> \o Unflatten(SubSeq(toks, 3, Len(toks)))

JSON_stringify(v) ==
    IF v[1] = "obj" THEN <<"jsontext", Flatten(v[2])>> ELSE <<"jsonnull">>

JSON_parse(s) ==
    IF s[1] = "jsontext" THEN Ok(Obj(Unflatten(s[2])))
    ELSE IF s[1] = "jsonnull" THEN Ok(Null)
    ELSE Throw(SyntaxError)

----------------------------------------------------------------------------
(* Primitives: @noble/hashes, @noble/ciphers, expo-crypto, Buffer *)

KEY_LEN == 32
IV_LEN == 12
SALT_LEN == 16

ARGON_AES_KEY == <<4 * 1024, 1, 1>>

GcmError == Str("aes/gcm: invalid ghash tag")

getRandomBytes(n, r) == <<"rnd", n, r>>
utf8ToBytes(s) == <<"utf8", s>>
bytesToUtf8(b) == IF b[1] = "utf8" THEN b[2] ELSE <<"mojibake", b>>
sha256(b) == <<"sha256", b>>
argon2id(password, salt, params, dkLen) == <<"argon2id", password, salt, params, dkLen>>

toBase64(bytes) == <<"b64", bytes>>
\* Buffer.from(value, 'base64') never throws on a string: it decodes what it can
fromBase64(value) == IF value[1] = "b64" THEN value[2] ELSE <<"junk", value>>

gcmEncrypt(key, iv, plaintext) == <<"gcm", key, iv, plaintext>>
gcmDecrypt(key, iv, data) ==
    IF data[1] = "gcm" /\ data[2] = key /\ data[3] = iv
    THEN Ok(data[4])
    ELSE Throw(GcmError)

----------------------------------------------------------------------------
(* crypto/zk.ts *)

\* the key derived without the password
deriveAesKey_NoPassword(password, saltB64) ==
    argon2id(utf8ToBytes(Str("")), fromBase64(saltB64), ARGON_AES_KEY, KEY_LEN)

deriveAesKey(password, saltB64) ==
    argon2id(utf8ToBytes(password), fromBase64(saltB64), ARGON_AES_KEY, KEY_LEN)

\* r is the outcome of Crypto.getRandomBytes(12)
encryptGCM(key, plaintext, r) ==
    LET iv == getRandomBytes(IV_LEN, r)
    IN [iv |-> toBase64(iv), ciphertext |-> toBase64(gcmEncrypt(key, iv, plaintext))]

\* the IV taken for the ciphertext and the ciphertext for the IV
decryptGCM_Swapped(key, ivB64, ciphertextB64) ==
    gcmDecrypt(key, fromBase64(ciphertextB64), fromBase64(ivB64))

decryptGCM(key, ivB64, ciphertextB64) ==
    gcmDecrypt(key, fromBase64(ivB64), fromBase64(ciphertextB64))

Envelope(enc) == JSON_stringify(Obj(<< <<"iv", enc.iv>>, <<"data", enc.ciphertext>> >>))

\* the profile encrypted under the password-derived key instead of the master key
buildPatientZkPayload_WrongKey(password, profile, rSalt, rKey, rIv1, rIv2) ==
    LET salt == toBase64(getRandomBytes(SALT_LEN, rSalt))
        aesKey == deriveAesKey(password, salt)
        masterKey == getRandomBytes(KEY_LEN, rKey)
        masterEnc == encryptGCM(aesKey, masterKey, rIv1)
        profileBytes == utf8ToBytes(JSON_stringify(profile))
        profileEnc == encryptGCM(aesKey, profileBytes, rIv2)
    IN Obj(<< <<"salt", salt>>,
              <<"encryptedMasterKey", Envelope(masterEnc)>>,
              <<"encryptedProfile", Envelope(profileEnc)>>,
              <<"masterKeyB64", toBase64(masterKey)>> >>)

\* rSalt, rKey, rIv1, rIv2: the outcomes of the four getRandomBytes calls
buildPatientZkPayload(password, profile, rSalt, rKey, rIv1, rIv2) ==
    LET salt == toBase64(getRandomBytes(SALT_LEN, rSalt))
        aesKey == deriveAesKey(password, salt)
        masterKey == getRandomBytes(KEY_LEN, rKey)
        masterEnc == encryptGCM(aesKey, masterKey, rIv1)
        profileBytes == utf8ToBytes(JSON_stringify(profile))
        profileEnc == encryptGCM(masterKey, profileBytes, rIv2)
    IN Obj(<< <<"salt", salt>>,
              <<"encryptedMasterKey", Envelope(masterEnc)>>,
              <<"encryptedProfile", Envelope(profileEnc)>>,
              <<"masterKeyB64", toBase64(masterKey)>> >>)

\* the parsed object returned without looking for iv and data
parseEncryptedJson_NoShapeCheck(value) ==
    IF Falsy(value) THEN Null
    ELSE LET parsed == JSON_parse(value)
         IN IF IsThrow(parsed) THEN Null
            ELSE IF parsed[2][1] # "obj" THEN Null
            ELSE parsed[2]

parseEncryptedJson(value) ==
    IF Falsy(value) THEN Null
    ELSE LET parsed == JSON_parse(value)
         IN IF IsThrow(parsed) THEN Null
            ELSE IF parsed[2][1] # "obj" THEN Null
            ELSE IF Falsy(Get(parsed[2], "iv")) \/ Falsy(Get(parsed[2], "data")) THEN Null
            ELSE parsed[2]

VaultIncompleteError == Str("Vault incomplet (salt ou encryptedMasterKey manquant)")
InvalidMasterKeyError == Str("encryptedMasterKey invalide")

VaultResult(masterKeyB64, profile) ==
    Ok(Obj(<< <<"masterKeyB64", masterKeyB64>>, <<"profile", profile>> >>))

\* step 3 of decryptPatientVault: the profile, once the master key is known
decryptVaultProfile(masterKey, masterKeyB64, encryptedProfile) ==
    IF Falsy(encryptedProfile) THEN VaultResult(masterKeyB64, Null)
    ELSE LET encProfile == parseEncryptedJson(encryptedProfile)
         IN IF encProfile = Null THEN VaultResult(masterKeyB64, Null)
            ELSE LET plaintext == decryptGCM(masterKey, Get(encProfile, "iv"),
                                             Get(encProfile, "data"))
                 IN IF IsThrow(plaintext) THEN plaintext
                    ELSE LET parsed == JSON_parse(bytesToUtf8(plaintext[2]))
                         IN IF IsThrow(parsed) THEN VaultResult(masterKeyB64, Null)
                            ELSE VaultResult(masterKeyB64, parsed[2])

\* salt and encryptedMasterKey used without looking whether they are there
decryptPatientVault_NoPresenceCheck(password, payload) ==
    LET encMaster == parseEncryptedJson(Get(payload, "encryptedMasterKey"))
    IN IF encMaster = Null THEN Throw(InvalidMasterKeyError)
       ELSE LET aesKey == deriveAesKey(password, Get(payload, "salt"))
                masterKey == decryptGCM(aesKey, Get(encMaster, "iv"),
                                        Get(encMaster, "data"))
            IN IF IsThrow(masterKey) THEN masterKey
               ELSE decryptVaultProfile(masterKey[2], toBase64(masterKey[2]),
                                        Get(payload, "encryptedProfile"))

decryptPatientVault(password, payload) ==
    IF Falsy(Get(payload, "salt")) \/ Falsy(Get(payload, "encryptedMasterKey"))
    THEN Throw(VaultIncompleteError)
    ELSE LET encMaster == parseEncryptedJson(Get(payload, "encryptedMasterKey"))
         IN IF encMaster = Null THEN Throw(InvalidMasterKeyError)
            ELSE LET aesKey == deriveAesKey(password, Get(payload, "salt"))
                     masterKey == decryptGCM(aesKey, Get(encMaster, "iv"),
                                             Get(encMaster, "data"))
                 IN IF IsThrow(masterKey) THEN masterKey
                    ELSE decryptVaultProfile(masterKey[2], toBase64(masterKey[2]),
                                             Get(payload, "encryptedProfile"))

decryptProfileWithMasterKey(masterKeyB64, encryptedProfile) ==
    IF Falsy(encryptedProfile) THEN Ok(Null)
    ELSE LET enc == parseEncryptedJson(encryptedProfile)
         IN IF enc = Null THEN Ok(Null)
            ELSE LET plaintext == decryptGCM(fromBase64(masterKeyB64), Get(enc, "iv"),
                                             Get(enc, "data"))
                 IN IF IsThrow(plaintext) THEN plaintext
                    ELSE LET parsed == JSON_parse(bytesToUtf8(plaintext[2]))
                         IN IF IsThrow(parsed) THEN Ok(Null) ELSE parsed

\* the base64 text of the key used as the key
encryptProfileWithMasterKey_RawKey(masterKeyB64, profile, r) ==
    Envelope(encryptGCM(utf8ToBytes(masterKeyB64), utf8ToBytes(JSON_stringify(profile)), r))

encryptProfileWithMasterKey(masterKeyB64, profile, r) ==
    Envelope(encryptGCM(fromBase64(masterKeyB64), utf8ToBytes(JSON_stringify(profile)), r))

----------------------------------------------------------------------------
(* Inputs *)

Passwords == {Str("Sesame123"), Str("hunter2!")}

Profiles == { Obj(<< <<"firstName", Str("Jean")>> >>),
              Obj(<< <<"pseudo", Str("jd")>>, <<"phone", Null>> >>) }

Docs == {EmptyObj} \cup Profiles

----------------------------------------------------------------------------
(* Exercising buildPatientZkPayload and decryptPatientVault: a vault is    *)
(* built, reaches decryptPatientVault intact or damaged in one way, and is *)
(* opened with some password.                                              *)

\* a well-formed {iv, data} envelope whose content does not decrypt or parse
ProfileContentCases == {"profile_data_tampered", "profile_iv_altered", "profile_plain_not_json"}
\* an encryptedProfile that is no {iv, data} envelope, or is missing
ProfileBlobCases == {"profile_not_json", "profile_no_iv", "profile_no_data", "profile_json_null",
                     "profile_empty", "profile_null", "profile_absent"}
MasterKeyFormatCases == {"emk_not_json", "emk_no_iv", "emk_no_data"}
MasterKeyContentCases == {"emk_data_tampered", "emk_iv_altered"}
SaltFormatCases == {"salt_malformed"}
MissingCases == {"salt_null", "salt_empty", "salt_absent", "emk_null", "emk_empty", "emk_absent"}

LabCases == ProfileContentCases \cup ProfileBlobCases \cup MasterKeyFormatCases
            \cup MasterKeyContentCases \cup SaltFormatCases \cup MissingCases

WithField(text, k, v) == JSON_stringify(Set(JSON_parse(text)[2], k, v))
WithoutField(text, k) == JSON_stringify(Omit(JSON_parse(text)[2], k))

TamperedData == toBase64(<<"junk", Str("flipped bits")>>)
AlteredIv == toBase64(getRandomBytes(IV_LEN, 0))
NotJson == Str("{oops")

Damaged(payload, masterKeyB64, c) ==
    LET emk == Get(payload, "encryptedMasterKey")
        ep == Get(payload, "encryptedProfile")
    IN CASE c = "profile_data_tampered" -> Set(payload, "encryptedProfile", WithField(ep, "data", TamperedData))
         [] c = "profile_iv_altered" -> Set(payload, "encryptedProfile", WithField(ep, "iv", AlteredIv))
         [] c = "profile_plain_not_json" ->
                Set(payload, "encryptedProfile",
                    Envelope(encryptGCM(fromBase64(masterKeyB64), utf8ToBytes(NotJson), 1)))
         [] c = "profile_not_json" -> Set(payload, "encryptedProfile", NotJson)
         [] c = "profile_no_iv" -> Set(payload, "encryptedProfile", WithoutField(ep, "iv"))
         [] c = "profile_no_data" -> Set(payload, "encryptedProfile", WithoutField(ep, "data"))
         [] c = "profile_json_null" -> Set(payload, "encryptedProfile", JSON_stringify(Null))
         [] c = "profile_empty" -> Set(payload, "encryptedProfile", Str(""))
         [] c = "profile_null" -> Set(payload, "encryptedProfile", Null)
         [] c = "profile_absent" -> Omit(payload, "encryptedProfile")
         [] c = "emk_not_json" -> Set(payload, "encryptedMasterKey", NotJson)
         [] c = "emk_no_iv" -> Set(payload, "encryptedMasterKey", WithoutField(emk, "iv"))
         [] c = "emk_no_data" -> Set(payload, "encryptedMasterKey", WithoutField(emk, "data"))
         [] c = "emk_data_tampered" -> Set(payload, "encryptedMasterKey", WithField(emk, "data", TamperedData))
         [] c = "emk_iv_altered" -> Set(payload, "encryptedMasterKey", WithField(emk, "iv", AlteredIv))
         [] c = "salt_malformed" -> Set(payload, "salt", Str("%%%"))
         [] c = "salt_null" -> Set(payload, "salt", Null)
         [] c = "salt_empty" -> Set(payload, "salt", Str(""))
         [] c = "salt_absent" -> Omit(payload, "salt")
         [] c = "emk_null" -> Set(payload, "encryptedMasterKey", Null)
         [] c = "emk_empty" -> Set(payload, "encryptedMasterKey", Str(""))
         [] c = "emk_absent" -> Omit(payload, "encryptedMasterKey")
         [] OTHER -> payload

LabInit ==
    /\ labPc = "start"
    /\ labPw \in Passwords
    /\ labDoc \in Docs
    /\ labBuilt = Undefined
    /\ labPayload = Undefined
    /\ labCase = "none"
    /\ labOpenPw = Undefined
    /\ labRes = Undefined

LabIdle ==
    /\ labPc = "idle"
    /\ labPw = Undefined
    /\ labDoc = Undefined
    /\ labBuilt = Undefined
    /\ labPayload = Undefined
    /\ labCase = "none"
    /\ labOpenPw = Undefined
    /\ labRes = Undefined

LabBuild(rSalt, rKey, rIv1, rIv2) ==
    /\ labPc = "start"
    /\ LET built == buildPatientZkPayload(labPw, labDoc, rSalt, rKey, rIv1, rIv2)
       IN /\ labBuilt' = built
          /\ labPayload' = Omit(built, "masterKeyB64")
    /\ labCase' = "intact"
    /\ labPc' = "built"
    /\ UNCHANGED <<labPw, labDoc, labOpenPw, labRes>>
    /\ UNCHANGED exceptLab

LabDamage(c) ==
    /\ labPc = "built"
    /\ labPayload' = Damaged(labPayload, Get(labBuilt, "masterKeyB64"), c)
    /\ labCase' = c
    /\ labPc' = "corrupted"
    /\ UNCHANGED <<labPw, labDoc, labBuilt, labOpenPw, labRes>>
    /\ UNCHANGED exceptLab

LabOpen(password) ==
    /\ labPc \in {"built", "corrupted"}
    /\ labRes' = decryptPatientVault(password, labPayload)
    /\ labOpenPw' = password
    /\ labPc' = "opened"
    /\ UNCHANGED <<labPw, labDoc, labBuilt, labPayload, labCase>>
    /\ UNCHANGED exceptLab


----------------------------------------------------------------------------
(* Strings the code normalises: <<"chars", sequence of characters>> *)

Chars(seq) == <<"chars", seq>>

\* characters String.prototype.trim removes, among those used here
WhiteSpace == {" ", "\t", "\n"}

RECURSIVE TrimLeft(_)
TrimLeft(seq) == IF seq # <<>> /\ Head(seq) \in WhiteSpace THEN TrimLeft(Tail(seq)) ELSE seq

RECURSIVE TrimRight(_)
TrimRight(seq) ==
    IF seq # <<>> /\ seq[Len(seq)] \in WhiteSpace
    THEN TrimRight(SubSeq(seq, 1, Len(seq) - 1)) ELSE seq

trim(s) == Chars(TrimRight(TrimLeft(s[2])))

LowerChar(c) == CASE c = "A" -> "a" [] c = "B" -> "b" [] OTHER -> c

toLowerCase(s) == Chars([i \in DOMAIN s[2] |-> LowerChar(s[2][i])])

ARGON_PASSWORD_HASH == <<4 * 1024, 1, 1>>

\* the e-mail address hashed as typed
derivePasswordHash_RawEmail(email, password) ==
    LET salt == sha256(utf8ToBytes(Chars(<<"psy2bib:">> \o email[2])))
    IN toBase64(argon2id(utf8ToBytes(password), salt, ARGON_PASSWORD_HASH, KEY_LEN))

derivePasswordHash(email, password) ==
    LET normEmail == toLowerCase(trim(email))
        salt == sha256(utf8ToBytes(Chars(<<"psy2bib:">> \o normEmail[2])))
    IN toBase64(argon2id(utf8ToBytes(password), salt, ARGON_PASSWORD_HASH, KEY_LEN))

Emails == { Chars(<<"a", "@", "b">>), Chars(<<" ", "A", "@", "B", " ">>) }
Roles == {Str("PATIENT"), Str("PSY")}
Pseudos == {Str("jd")}
AccountId == Chars(<<"u", "1">>)
PeerId == Chars(<<"u", "2">>)

----------------------------------------------------------------------------
(* api/client.ts: authStorage.  m is the module state                      *)
(* [accessToken, refreshToken, userId, userPseudo, patientVault, store].   *)

EmptyStore ==
    [accessToken |-> Null, refreshToken |-> Null, userRole |-> Null,
     userId |-> Null, userPseudo |-> Null, patientVault |-> Null]

Mem ==
    [accessToken |-> accessToken, refreshToken |-> refreshToken, userId |-> userId,
     userPseudo |-> userPseudo, patientVault |-> patientVault, store |-> store]

Commit(m) ==
    /\ accessToken' = m.accessToken
    /\ refreshToken' = m.refreshToken
    /\ userId' = m.userId
    /\ userPseudo' = m.userPseudo
    /\ patientVault' = m.patientVault
    /\ store' = m.store

authStorage_load(m) ==
    LET vaultRaw == m.store.patientVault
    IN [m EXCEPT !.accessToken = m.store.accessToken,
                 !.refreshToken = m.store.refreshToken,
                 !.userId = m.store.userId,
                 !.userPseudo = m.store.userPseudo,
                 !.patientVault = IF Falsy(vaultRaw) THEN Null ELSE JSON_parse(vaultRaw)[2]]

\* every field written, whether the call carries it or not
authStorage_set_Overwrite(m, tokens) ==
    [accessToken |-> Get(tokens, "accessToken"),
     refreshToken |-> Get(tokens, "refreshToken"),
     userId |-> Coalesce(Get(tokens, "userId"), Null),
     userPseudo |-> Coalesce(Get(tokens, "userPseudo"), Null),
     patientVault |-> Coalesce(Get(tokens, "patientVault"), Null),
     store |-> [accessToken |-> Get(tokens, "accessToken"),
                refreshToken |-> Get(tokens, "refreshToken"),
                userRole |-> Coalesce(Get(tokens, "userRole"), Null),
                userId |-> Coalesce(Get(tokens, "userId"), Null),
                userPseudo |-> Coalesce(Get(tokens, "userPseudo"), Null),
                patientVault |-> IF Falsy(Get(tokens, "patientVault")) THEN Null
                                 ELSE JSON_stringify(Get(tokens, "patientVault"))]]

authStorage_set(m, tokens) ==
    LET role == Get(tokens, "userRole")
        id == Get(tokens, "userId")
        pseudo == Get(tokens, "userPseudo")
        vault == Get(tokens, "patientVault")
    IN [accessToken |-> Get(tokens, "accessToken"),
        refreshToken |-> Get(tokens, "refreshToken"),
        userId |-> IF Falsy(id) THEN m.userId ELSE id,
        userPseudo |-> IF Falsy(pseudo) THEN m.userPseudo ELSE pseudo,
        patientVault |-> IF Falsy(vault) THEN m.patientVault ELSE vault,
        store |-> [accessToken |-> Get(tokens, "accessToken"),
                   refreshToken |-> Get(tokens, "refreshToken"),
                   userRole |-> IF Falsy(role) THEN m.store.userRole ELSE role,
                   userId |-> IF Falsy(id) THEN m.store.userId ELSE id,
                   userPseudo |-> IF Falsy(pseudo) THEN m.store.userPseudo ELSE pseudo,
                   patientVault |-> IF Falsy(vault) THEN m.store.patientVault
                                    ELSE JSON_stringify(vault)]]

authStorage_saveVault(m, vault) ==
    [m EXCEPT !.patientVault = vault,
              !.store.patientVault = IF vault \in {Null, Undefined} THEN Null
                                     ELSE JSON_stringify(vault)]

\* the stored vault left in SecureStore
authStorage_clear_KeepsVault(m) ==
    [m EXCEPT !.accessToken = Null,
              !.refreshToken = Null,
              !.patientVault = Null,
              !.store = [EmptyStore EXCEPT !.patientVault = m.store.patientVault]]

authStorage_clear(m) ==
    [m EXCEPT !.accessToken = Null,
              !.refreshToken = Null,
              !.patientVault = Null,
              !.store = EmptyStore]

----------------------------------------------------------------------------
(* The backend, as the client sees it *)

Jwt(kind, n) == <<"jwt", kind, n>>

Request(method, url, body) == <<"req", method, url, body>>

\* a psychologist's account, registered from another device
PsyEmail == Chars(<<"p", "@", "b">>)
PsyAccount ==
    Obj(<< <<"id", PeerId>>,
           <<"email", PsyEmail>>,
           <<"passwordHash", derivePasswordHash(PsyEmail, Str("hunter2!"))>>,
           <<"pseudo", Str("dr")>>,
           <<"role", Str("PSY")>>,
           <<"encryptedMasterKey", Null>>,
           <<"salt", Null>>,
           <<"encryptedProfile", Null>> >>)

\* the account the backend holds for an e-mail address, or null
AccountFor(normalizedEmail) ==
    IF normalizedEmail = PsyEmail THEN PsyAccount ELSE srvAccount

AuthResponse(account, n) ==
    Obj(<< <<"accessToken", Jwt("access", n)>>,
           <<"refreshToken", Jwt("refresh", n)>>,
           <<"encryptedMasterKey", Get(account, "encryptedMasterKey")>>,
           <<"salt", Get(account, "salt")>>,
           <<"encryptedProfile", Get(account, "encryptedProfile")>>,
           <<"role", Get(account, "role")>>,
           <<"userId", Coalesce(Get(account, "id"), AccountId)>>,
           <<"pseudo", Get(account, "pseudo")>> >>)

\* the account POST /auth/register stores: what the body carries, absent fields null
NewAccount(body) ==
    LET field(k) == IF HasKey(body, k) THEN Get(body, k) ELSE Null
    IN Obj(<< <<"email", field("email")>>,
              <<"passwordHash", field("passwordHash")>>,
              <<"pseudo", field("pseudo")>>,
              <<"role", field("role")>>,
              <<"encryptedMasterKey", field("encryptedMasterKey")>>,
              <<"salt", field("salt")>>,
              <<"encryptedProfile", field("encryptedProfile")>> >>)

\* ways the vault fields of a login response can differ from what was stored
LoginCases == {"intact", "emk_data_tampered", "emk_not_json",
               "profile_data_tampered", "profile_not_json"}

----------------------------------------------------------------------------
(* hooks/useAuth.tsx *)

AppInit ==
    /\ user = Null
    /\ ctxPatientVault = Null
    /\ loading = TRUE
    /\ accessToken = Null
    /\ refreshToken = Null
    /\ userId = Null
    /\ userPseudo = Null
    /\ patientVault = Null
    /\ store = EmptyStore
    /\ srvAccount = Null
    /\ sent = <<>>
    /\ lastOp = "none"
    /\ lastResult = "none"
    /\ lastOpen = Undefined
    /\ lastCase = "none"
    /\ lastPassword = Undefined
    /\ hist = [password |-> Undefined, masterKeyB64 |-> Undefined, profile |-> Undefined]

Done(op, result) ==
    /\ lastOp' = op
    /\ lastResult' = result

\* the process is killed and started again: memory is lost, SecureStore is kept
AppRestart ==
    /\ ~loading
    /\ user' = Null
    /\ ctxPatientVault' = Null
    /\ loading' = TRUE
    /\ accessToken' = Null
    /\ refreshToken' = Null
    /\ userId' = Null
    /\ userPseudo' = Null
    /\ patientVault' = Null
    /\ sent' = <<>>
    /\ lastPassword' = Undefined
    /\ Done("restart", "none")
    /\ UNCHANGED <<store, srvAccount, lastOpen, lastCase, hist>>
    /\ UNCHANGED benchVars

\* the session restored on the tokens alone
RestoreSession_TokensOnly ==
    /\ loading
    /\ LET m == authStorage_load(Mem)
           userRole == m.store.userRole
           restored == ~Falsy(m.accessToken) /\ ~Falsy(m.refreshToken)
       IN /\ Commit(m)
          /\ user' = IF restored
                     THEN Obj(<< <<"id", IF m.userId = Null THEN Undefined ELSE m.userId>>,
                                 <<"role", userRole>>,
                                 <<"pseudo", IF m.userPseudo = Null THEN Undefined
                                             ELSE m.userPseudo>> >>)
                     ELSE user
          /\ ctxPatientVault' = IF restored /\ ~Falsy(m.patientVault) THEN m.patientVault
                                ELSE ctxPatientVault
    /\ loading' = FALSE
    /\ sent' = <<>>
    /\ Done("restore", "ok")
    /\ UNCHANGED <<srvAccount, lastOpen, lastCase, lastPassword, hist>>
    /\ UNCHANGED benchVars

\* AuthProvider's mount effect
RestoreSession ==
    /\ loading
    /\ LET m == authStorage_load(Mem)
           userRole == m.store.userRole
           restored == ~Falsy(userRole) /\ ~Falsy(m.accessToken) /\ ~Falsy(m.refreshToken)
       IN /\ Commit(m)
          /\ user' = IF restored
                     THEN Obj(<< <<"id", IF m.userId = Null THEN Undefined ELSE m.userId>>,
                                 <<"role", userRole>>,
                                 <<"pseudo", IF m.userPseudo = Null THEN Undefined
                                             ELSE m.userPseudo>> >>)
                     ELSE user
          /\ ctxPatientVault' = IF restored /\ ~Falsy(m.patientVault) THEN m.patientVault
                                ELSE ctxPatientVault
    /\ loading' = FALSE
    /\ sent' = <<>>
    /\ Done("restore", "ok")
    /\ UNCHANGED <<srvAccount, lastOpen, lastCase, lastPassword, hist>>
    /\ UNCHANGED benchVars

\* persistSession(data): authStorage.set, setUser, setPatientVault
PersistSession(data) ==
    /\ Commit(authStorage_set(Mem,
            Obj(<< <<"accessToken", Get(data, "accessToken")>>,
                   <<"refreshToken", Get(data, "refreshToken")>>,
                   <<"userRole", Get(data, "role")>>,
                   <<"userId", Get(data, "userId")>>,
                   <<"userPseudo", Get(data, "pseudo")>>,
                   <<"patientVault", Get(data, "patientVault")>> >>)))
    /\ user' = Obj(<< <<"id", Get(data, "userId")>>,
                      <<"role", Get(data, "role")>>,
                      <<"email", Get(data, "email")>>,
                      <<"pseudo", Get(data, "pseudo")>> >>)
    /\ ctxPatientVault' = IF Falsy(Get(data, "patientVault")) THEN ctxPatientVault
                          ELSE Get(data, "patientVault")

\* the whole zk object spread into the body
RegisterBody_SpreadZk(normalizedEmail, passwordHash, pseudo, role, zk) ==
    Spread(Obj(<< <<"email", normalizedEmail>>,
                  <<"passwordHash", passwordHash>>,
                  <<"pseudo", pseudo>>,
                  <<"role", role>> >>),
           IF ~Falsy(Get(zk, "masterKeyB64")) THEN zk ELSE EmptyObj)

\* the request body handleRegister builds
RegisterBody(normalizedEmail, passwordHash, pseudo, role, zk) ==
    Spread(Obj(<< <<"email", normalizedEmail>>,
                  <<"passwordHash", passwordHash>>,
                  <<"pseudo", pseudo>>,
                  <<"role", role>> >>),
           IF ~Falsy(Get(zk, "masterKeyB64"))
           THEN Obj(<< <<"encryptedMasterKey", Get(zk, "encryptedMasterKey")>>,
                       <<"encryptedProfile", Get(zk, "encryptedProfile")>>,
                       <<"salt", Get(zk, "salt")>> >>)
           ELSE EmptyObj)

\* handleRegister(payload); accepted: the backend created the account
handleRegister(email, password, pseudo, role, profile, rSalt, rKey, rIv1, rIv2, n, accepted) ==
    /\ ~loading /\ user = Null
    /\ srvAccount = Null
    /\ LET normalizedEmail == toLowerCase(trim(email))
           passwordHash == derivePasswordHash(normalizedEmail, password)
           zk == IF role = Str("PATIENT")
                 THEN buildPatientZkPayload(password, profile, rSalt, rKey, rIv1, rIv2)
                 ELSE Obj(<< <<"encryptedMasterKey", Null>>, <<"encryptedProfile", Null>>,
                             <<"salt", Null>> >>)
           body == RegisterBody(normalizedEmail, passwordHash, pseudo, role, zk)
           account == NewAccount(body)
           data == AuthResponse(account, n)
           vault == IF Get(data, "role") = Str("PATIENT")
                    THEN Obj(<< <<"encryptedMasterKey", Get(zk, "encryptedMasterKey")>>,
                                <<"encryptedProfile", Get(zk, "encryptedProfile")>>,
                                <<"salt", Get(zk, "salt")>>,
                                <<"masterKeyB64", Get(zk, "masterKeyB64")>>,
                                <<"profile", profile>> >>)
                    ELSE Null
       IN /\ sent' = << Request("POST", "/auth/register", body) >>
          /\ lastPassword' = password
          /\ IF accepted
             THEN /\ srvAccount' = account
                  /\ PersistSession(Set(Set(Set(data, "email", normalizedEmail),
                                            "pseudo", pseudo), "patientVault", vault))
                  /\ hist' = IF role = Str("PATIENT")
                             THEN [password |-> password,
                                   masterKeyB64 |-> Get(zk, "masterKeyB64"),
                                   profile |-> profile]
                             ELSE hist
                  /\ Done("register", "ok")
             ELSE /\ UNCHANGED <<srvAccount, user, ctxPatientVault, hist>>
                  /\ UNCHANGED memVars
                  /\ Done("register", "throw")
    /\ UNCHANGED <<loading, lastOpen, lastCase>>
    /\ UNCHANGED benchVars

\* the opened key and profile left out
LoginVault_EncryptedOnly(opened, data) ==
    Obj(<< <<"encryptedMasterKey", Get(data, "encryptedMasterKey")>>,
           <<"encryptedProfile", Get(data, "encryptedProfile")>>,
           <<"salt", Get(data, "salt")>> >>)

\* the vault handleLogin keeps: what was opened plus the fields it came from
LoginVault(opened, data) ==
    Spread(opened, Obj(<< <<"encryptedMasterKey", Get(data, "encryptedMasterKey")>>,
                          <<"encryptedProfile", Get(data, "encryptedProfile")>>,
                          <<"salt", Get(data, "salt")>> >>))

\* handleLogin(email, password); reachable: the request got an answer;
\* c: how the vault fields of the answer differ from what the backend stores
handleLogin(email, password, n, reachable, c) ==
    /\ ~loading /\ user = Null
    /\ c = "intact" \/ Get(AccountFor(toLowerCase(trim(email))), "role") = Str("PATIENT")
    /\ LET normalizedEmail == toLowerCase(trim(email))
           passwordHash == derivePasswordHash(normalizedEmail, password)
           body == Obj(<< <<"email", normalizedEmail>>, <<"passwordHash", passwordHash>> >>)
           account == AccountFor(normalizedEmail)
           granted == /\ reachable
                      /\ account # Null
                      /\ Get(account, "email") = normalizedEmail
                      /\ Get(account, "passwordHash") = passwordHash
           stored == AuthResponse(account, n)
           data == Damaged(stored, hist.masterKeyB64, c)
           isPatient == Get(data, "role") = Str("PATIENT")
           opened == decryptPatientVault(password,
                         Obj(<< <<"salt", Get(data, "salt")>>,
                                <<"encryptedMasterKey", Get(data, "encryptedMasterKey")>>,
                                <<"encryptedProfile", Get(data, "encryptedProfile")>> >>))
           vault == IF isPatient /\ IsOk(opened) THEN LoginVault(opened[2], data) ELSE Null
       IN /\ sent' = << Request("POST", "/auth/login", body) >>
          /\ lastPassword' = password
          /\ IF granted
             THEN /\ PersistSession(Set(Set(data, "email", normalizedEmail),
                                        "patientVault", vault))
                  /\ lastOpen' = IF isPatient THEN opened ELSE Undefined
                  /\ lastCase' = c
                  /\ Done("login", "ok")
             ELSE \* 401 without a refresh token: the interceptor clears the session
                  /\ Commit(IF reachable /\ Falsy(refreshToken)
                            THEN authStorage_clear(Mem) ELSE Mem)
                  /\ lastOpen' = Undefined
                  /\ lastCase' = "none"
                  /\ UNCHANGED <<user, ctxPatientVault>>
                  /\ Done("login", "throw")
    /\ UNCHANGED <<loading, srvAccount, hist>>
    /\ UNCHANGED benchVars

\* the user set to null, vault and storage left as they are
handleLogout_UserOnly(accepted) ==
    /\ ~loading /\ user # Null
    /\ sent' = << Request("POST", "/auth/logout", EmptyObj) >>
    /\ user' = Null
    /\ Done("logout", IF accepted THEN "ok" ELSE "throw")
    /\ UNCHANGED <<ctxPatientVault, loading, srvAccount, lastOpen, lastCase, lastPassword, hist>>
    /\ UNCHANGED memVars
    /\ UNCHANGED benchVars

\* handleLogout(); accepted: POST /auth/logout succeeded
handleLogout(accepted) ==
    /\ ~loading /\ user # Null
    /\ sent' = << Request("POST", "/auth/logout", EmptyObj) >>
    /\ Commit(authStorage_clear(Mem))
    /\ user' = Null
    /\ ctxPatientVault' = Null
    /\ Done("logout", IF accepted THEN "ok" ELSE "throw")
    /\ UNCHANGED <<loading, srvAccount, lastOpen, lastCase, lastPassword, hist>>
    /\ UNCHANGED benchVars

\* updatePatientVault(vault): setPatientVault, authStorage.saveVault
updatePatientVault(vault) ==
    /\ ctxPatientVault' = vault
    /\ Commit(authStorage_saveVault(Mem, vault))


----------------------------------------------------------------------------
(* screens/patient/PatientProfileScreen.tsx *)

Forms ==
    { Obj(<< <<"phone", Str(ph)>>, <<"email", Str("a@b")>>, <<"birthDate", Str("")>>,
             <<"age", Str("")>>, <<"medicalHistory", Str("")>>, <<"objectives", Str(ob)>> >>)
      : ph \in {"0601"}, ob \in {"", "sleep"} }

ISOString(t) == <<"iso", t>>

IsPatientSession == ~loading /\ user # Null /\ Get(user, "role") = Str("PATIENT")

\* onSave(); accepted: PATCH /patients/me succeeded; echoed: its answer
\* carries the stored encryptedProfile
onSave(form, t, r, accepted, echoed) ==
    /\ IsPatientSession
    /\ IF Falsy(Get(ctxPatientVault, "masterKeyB64"))
       THEN /\ sent' = <<>>
            /\ Done("save", "nokey")
            /\ UNCHANGED <<ctxPatientVault, srvAccount, hist>>
            /\ UNCHANGED memVars
       ELSE LET profilePayload == Set(form, "updatedAt", ISOString(t))
                encryptedProfile ==
                    encryptProfileWithMasterKey(Get(ctxPatientVault, "masterKeyB64"),
                                                profilePayload, r)
                body == Obj(<< <<"encryptedProfile", encryptedProfile>> >>)
                stored == Spread(srvAccount, body)
                data == IF echoed THEN stored ELSE EmptyObj
                updatedVault ==
                    Set(Set(ctxPatientVault, "encryptedProfile",
                            Coalesce(Get(data, "encryptedProfile"), encryptedProfile)),
                        "profile", profilePayload)
            IN /\ sent' = << Request("PATCH", "/patients/me", body) >>
               /\ IF accepted
                  THEN /\ srvAccount' = stored
                       /\ updatePatientVault(updatedVault)
                       /\ hist' = [hist EXCEPT !.profile = profilePayload]
                       /\ Done("save", "ok")
                  ELSE /\ UNCHANGED <<ctxPatientVault, srvAccount, hist>>
                       /\ UNCHANGED memVars
                       /\ Done("save", "error")
    /\ UNCHANGED <<user, loading, lastOpen, lastCase, lastPassword>>
    /\ UNCHANGED benchVars

\* the screen's mount effect; accepted: GET /patients/me succeeded
LoadProfile(accepted) ==
    /\ IsPatientSession
    /\ sent' = << Request("GET", "/patients/me", EmptyObj) >>
    /\ LET data == srvAccount
           pv == ctxPatientVault
           latestVault ==
               Spread(pv,
                   Obj(<< <<"encryptedMasterKey",
                            Coalesce(Get(data, "encryptedMasterKey"), Get(pv, "encryptedMasterKey"))>>,
                          <<"encryptedProfile",
                            Coalesce(Get(data, "encryptedProfile"), Get(pv, "encryptedProfile"))>>,
                          <<"salt", Coalesce(Get(data, "salt"), Get(pv, "salt"))>>,
                          <<"masterKeyB64", Get(pv, "masterKeyB64")>> >>))
           readable == /\ ~Falsy(Get(latestVault, "masterKeyB64"))
                       /\ ~Falsy(Get(latestVault, "encryptedProfile"))
           profile == decryptProfileWithMasterKey(Get(latestVault, "masterKeyB64"),
                                                  Get(latestVault, "encryptedProfile"))
       IN IF accepted /\ ~(readable /\ IsThrow(profile))
          THEN /\ updatePatientVault(IF readable THEN Set(latestVault, "profile", profile[2])
                                     ELSE latestVault)
               /\ Done("load", "ok")
          ELSE /\ UNCHANGED ctxPatientVault
               /\ UNCHANGED memVars
               /\ Done("load", "error")
    /\ UNCHANGED <<user, loading, srvAccount, lastOpen, lastCase, lastPassword, hist>>
    /\ UNCHANGED benchVars

----------------------------------------------------------------------------
(* screens/chat/ChatConversationScreen.tsx *)

\* UTF-16 code unit of the characters identifiers are written with
CharCode(c) ==
    CASE c = "1" -> 49 [] c = "2" -> 50 [] c = ":" -> 58
      [] c = "a" -> 97 [] c = "b" -> 98 [] c = "u" -> 117 [] OTHER -> 0

\* a < b, comparing code unit by code unit
RECURSIVE SeqLess(_, _)
SeqLess(a, b) ==
    IF b = <<>> THEN FALSE
    ELSE IF a = <<>> THEN TRUE
    ELSE IF CharCode(Head(a)) # CharCode(Head(b)) THEN CharCode(Head(a)) < CharCode(Head(b))
    ELSE SeqLess(Tail(a), Tail(b))

\* the two identifiers in the order given
SortPair_Unsorted(a, b) == <<a, b>>

\* [a, b].sort()
SortPair(a, b) == IF SeqLess(b[2], a[2]) THEN <<b, a>> ELSE <<a, b>>

\* pair.join(':')
Join(pair) == Chars(pair[1][2] \o <<":">> \o pair[2][2])

ARGON_CHAT == <<1024, 1, 1>>

\* what is hashed into the key: `psy2bib-chat:${[id, peerId].sort().join(':')}`
chatMaterial(id, peerId) == Chars(<<"psy2bib-chat:">> \o Join(SortPair(id, peerId))[2])

chatKey(id, peerId) ==
    argon2id(utf8ToBytes(chatMaterial(id, peerId)),
             sha256(utf8ToBytes(Str("psy2bib-chat-salt"))), ARGON_CHAT, KEY_LEN)

\* the conversationKey memo of the conversation screen
conversationKey(id, peerId) ==
    IF Falsy(id) \/ Falsy(peerId) THEN Null ELSE chatKey(id, peerId)

\* the other party of the conversation
PeerFor(id) == IF id = PeerId THEN AccountId ELSE PeerId

Contents == {Str("bonjour")}
Files == { [name |-> Str("scan.pdf"), mimeType |-> Undefined, bytes |-> <<"file", 1>>] }

\* sendMessage(recipientId, encryptedContent, iv, attachmentPath): the body posted
MessageBody(recipientId, encryptedContent, iv, attachmentPath) ==
    Obj(<< <<"recipientId", recipientId>>,
           <<"encryptedContent", encryptedContent>>,
           <<"iv", iv>>,
           <<"attachmentPath", attachmentPath>> >>)

\* the text posted as it was typed
TextMessage_Plaintext(key, targetId, content, r) ==
    LET ivBytes == getRandomBytes(IV_LEN, r)
    IN MessageBody(targetId, toBase64(utf8ToBytes(content)), toBase64(ivBytes), Undefined)

\* the body handleSendText posts; r: the outcome of Crypto.getRandomBytes(12)
TextMessage(key, targetId, content, r) ==
    LET ivBytes == getRandomBytes(IV_LEN, r)
        ciphertext == gcmEncrypt(key, ivBytes, utf8ToBytes(content))
    IN MessageBody(targetId, toBase64(ciphertext), toBase64(ivBytes), Undefined)

\* handleSendText(); accepted: POST /chat/send succeeded
handleSendText(content, r, accepted) ==
    /\ ~loading /\ user # Null
    /\ LET targetId == PeerFor(Get(user, "id"))
           key == conversationKey(Get(user, "id"), targetId)
       IN IF Falsy(Get(user, "id")) \/ key = Null
          THEN sent' = <<>> /\ Done("sendText", "none")
          ELSE /\ sent' = << Request("POST", "/chat/send",
                                     TextMessage(key, targetId, content, r)) >>
               /\ Done("sendText", IF accepted THEN "ok" ELSE "error")
    /\ UNCHANGED <<user, ctxPatientVault, loading, srvAccount, lastOpen, lastCase,
                   lastPassword, hist>>
    /\ UNCHANGED memVars
    /\ UNCHANGED benchVars

\* the encrypted file as uploaded; rFile: the outcome of the first getRandomBytes(12)
FileBlob(key, file, rFile) ==
    LET fileContentBase64 == toBase64(file.bytes)
        fileIvBytes == getRandomBytes(IV_LEN, rFile)
    IN toBase64(gcmEncrypt(key, fileIvBytes, fromBase64(fileContentBase64)))

\* the fileIv reused as the IV of the message
FileMessage_SharedIv(key, targetId, file, rFile, rMsg, path) ==
    LET fileIv == toBase64(getRandomBytes(IV_LEN, rFile))
        meta == JSON_stringify(Obj(<< <<"filename", file.name>>,
                                      <<"mimeType", IF Falsy(file.mimeType)
                                                    THEN Str("application/octet-stream")
                                                    ELSE file.mimeType>>,
                                      <<"fileIv", fileIv>> >>))
        msgIvBytes == getRandomBytes(IV_LEN, rFile)
        metaEncrypted == gcmEncrypt(key, msgIvBytes, utf8ToBytes(meta))
    IN MessageBody(targetId, toBase64(metaEncrypted), toBase64(msgIvBytes), path)

\* the body processFileAndSend posts after the upload; rMsg: the outcome of
\* the second getRandomBytes(12); path: where the backend put the blob
FileMessage(key, targetId, file, rFile, rMsg, path) ==
    LET fileIv == toBase64(getRandomBytes(IV_LEN, rFile))
        meta == JSON_stringify(Obj(<< <<"filename", file.name>>,
                                      <<"mimeType", IF Falsy(file.mimeType)
                                                    THEN Str("application/octet-stream")
                                                    ELSE file.mimeType>>,
                                      <<"fileIv", fileIv>> >>))
        msgIvBytes == getRandomBytes(IV_LEN, rMsg)
        metaEncrypted == gcmEncrypt(key, msgIvBytes, utf8ToBytes(meta))
    IN MessageBody(targetId, toBase64(metaEncrypted), toBase64(msgIvBytes), path)

UploadPath == Str("uploads/blob.enc")

\* processFileAndSend(file); uploaded: POST /chat/attachment succeeded;
\* accepted: POST /chat/send succeeded
processFileAndSend(file, rFile, rMsg, uploaded, accepted) ==
    /\ ~loading /\ user # Null
    /\ LET targetId == PeerFor(Get(user, "id"))
           key == conversationKey(Get(user, "id"), targetId)
           upload == Request("POST", "/chat/attachment",
                             Obj(<< <<"file", FileBlob(key, file, rFile)>> >>))
           send == Request("POST", "/chat/send",
                           FileMessage(key, targetId, file, rFile, rMsg, UploadPath))
       IN IF Falsy(Get(user, "id")) \/ key = Null
          THEN sent' = <<>> /\ Done("sendFile", "none")
          ELSE IF ~uploaded
          THEN sent' = << upload >> /\ Done("sendFile", "error")
          ELSE /\ sent' = << upload, send >>
               /\ Done("sendFile", IF accepted THEN "ok" ELSE "error")
    /\ UNCHANGED <<user, ctxPatientVault, loading, srvAccount, lastOpen, lastCase,
                   lastPassword, hist>>
    /\ UNCHANGED memVars
    /\ UNCHANGED benchVars

----------------------------------------------------------------------------
(* Every encryption the client performs, with Crypto.getRandomBytes as a    *)
(* generator that never returns the same bytes twice: its k-th call returns *)
(* the bytes numbered k.                                                    *)

IvIdle ==
    /\ drawn = 0
    /\ encLog = <<>>
    /\ ivKey = Undefined

\* the ciphertext inside an {iv, data} envelope
Sealed(envelope) == fromBase64(Get(JSON_parse(envelope)[2], "data"))

\* registration of a patient: buildPatientZkPayload, four draws
IvBuild(password, profile) ==
    /\ drawn + 4 <= MaxDraws
    /\ LET zk == buildPatientZkPayload(password, profile,
                                       drawn + 1, drawn + 2, drawn + 3, drawn + 4)
       IN /\ encLog' = encLog \o << Sealed(Get(zk, "encryptedMasterKey")),
                                     Sealed(Get(zk, "encryptedProfile")) >>
          /\ ivKey' = Get(zk, "masterKeyB64")
    /\ drawn' = drawn + 4
    /\ UNCHANGED exceptIv

\* onSave of the profile screen: encryptProfileWithMasterKey, one draw
IvSaveProfile(form, t) ==
    /\ drawn + 1 <= MaxDraws
    /\ ~Falsy(ivKey)
    /\ encLog' = Append(encLog,
            Sealed(encryptProfileWithMasterKey(ivKey, Set(form, "updatedAt", ISOString(t)),
                                               drawn + 1)))
    /\ drawn' = drawn + 1
    /\ UNCHANGED ivKey
    /\ UNCHANGED exceptIv

\* handleSendText: one draw
IvSendText(content) ==
    /\ drawn + 1 <= MaxDraws
    /\ LET body == TextMessage(conversationKey(AccountId, PeerId), PeerId, content, drawn + 1)
       IN encLog' = Append(encLog, fromBase64(Get(body, "encryptedContent")))
    /\ drawn' = drawn + 1
    /\ UNCHANGED ivKey
    /\ UNCHANGED exceptIv

\* processFileAndSend: two draws, the file first, the message second
IvSendFile(file) ==
    /\ drawn + 2 <= MaxDraws
    /\ LET key == conversationKey(AccountId, PeerId)
           blob == FileBlob(key, file, drawn + 1)
           body == FileMessage(key, PeerId, file, drawn + 1, drawn + 2, UploadPath)
       IN encLog' = encLog \o << fromBase64(blob), fromBase64(Get(body, "encryptedContent")) >>
    /\ drawn' = drawn + 2
    /\ UNCHANGED ivKey
    /\ UNCHANGED exceptIv

IvNext ==
    \/ \E password \in Passwords, profile \in Profiles : IvBuild(password, profile)
    \/ \E form \in Forms, t \in Clock : IvSaveProfile(form, t)
    \/ \E content \in Contents : IvSendText(content)
    \/ \E file \in Files : IvSendFile(file)

----------------------------------------------------------------------------
(* Conversation keys: users a and b open their conversation with each      *)
(* other, user c opens the conversation with d, then a and b list their     *)
(* threads.                                                                 *)

IdAlphabet == {"a", ":"}

Ids == { Chars(seq) : seq \in UNION { [1..n -> IdAlphabet] : n \in 1..MaxIdLen } }

\* the key decryptPreview derives for thread.peer.id
previewKey(id, peerId) ==
    LET salt == sha256(utf8ToBytes(Str("psy2bib-chat-salt")))
        material == utf8ToBytes(Chars(<<"psy2bib-chat:">> \o Join(SortPair(id, peerId))[2]))
    IN argon2id(material, salt, <<1024, 1, 1>>, 32)

KeyIdle ==
    /\ keyPc = "idle"
    /\ ids = Undefined
    /\ screenKeys = Undefined
    /\ previewKeys = Undefined

KeyStart ==
    /\ keyPc = "start"
    /\ ids \in [a : Ids, b : Ids, c : Ids, d : Ids]
    /\ screenKeys = Undefined
    /\ previewKeys = Undefined

KeyConversation ==
    /\ keyPc = "start"
    /\ screenKeys' = [ab |-> conversationKey(ids.a, ids.b),
                      ba |-> conversationKey(ids.b, ids.a),
                      materialAB |-> chatMaterial(ids.a, ids.b),
                      materialCD |-> chatMaterial(ids.c, ids.d)]
    /\ keyPc' = "conversation"
    /\ UNCHANGED <<ids, previewKeys>>
    /\ UNCHANGED exceptKey

KeyThreads ==
    /\ keyPc = "conversation"
    /\ previewKeys' = [ab |-> previewKey(ids.a, ids.b), ba |-> previewKey(ids.b, ids.a)]
    /\ keyPc' = "threads"
    /\ UNCHANGED <<ids, screenKeys>>
    /\ UNCHANGED exceptKey

KeyNext == KeyConversation \/ KeyThreads

----------------------------------------------------------------------------
(* Reading a conversation: ChatConversationScreen (decryptMessage,          *)
(* getAttachmentMeta, handleDownload) and the thread list (decryptPreview). *)
(* Functions return <<"ok", value>>, or <<"throw", error>> when an          *)
(* exception leaves them.                                                   *)

\* a || b
OrElse(a, b) == IF Falsy(a) THEN b ELSE a

Unreadable == Str("Message illisible (erreur dechiffrement)")
EncryptedFileLabel == Str("(paperclip) Fichier chiffre")
FileLabel(filename) == <<"tpl", "(paperclip) Fichier : ", filename>>

\* the decryption left outside any try
decryptMessage_NoCatch(key, msg) ==
    IF Falsy(key) THEN Ok(Get(msg, "encryptedContent"))
    ELSE LET plain == gcmDecrypt(key, fromBase64(Get(msg, "iv")),
                                 fromBase64(Get(msg, "encryptedContent")))
         IN IF IsThrow(plain) THEN plain ELSE Ok(bytesToUtf8(plain[2]))

decryptMessage(key, msg) ==
    IF Falsy(key) THEN Ok(Get(msg, "encryptedContent"))
    ELSE LET plain == gcmDecrypt(key, fromBase64(Get(msg, "iv")),
                                 fromBase64(Get(msg, "encryptedContent")))
         IN IF IsThrow(plain) THEN Ok(Unreadable)
            ELSE LET text == bytesToUtf8(plain[2])
                     meta == JSON_parse(text)
                 IN IF Falsy(Get(msg, "attachmentPath")) THEN Ok(text)
                    ELSE IF IsThrow(meta) \/ meta[2] = Null THEN Ok(EncryptedFileLabel)
                    ELSE Ok(FileLabel(OrElse(Get(meta[2], "filename"), Str("Document"))))

\* renderMessage for every item of the list: the texts shown, or the
\* exception of the first item whose rendering threw
RECURSIVE renderMessages(_, _)
renderMessages(key, msgs) ==
    IF msgs = <<>> THEN Ok(<<>>)
    ELSE LET text == decryptMessage(key, Head(msgs))
             rest == renderMessages(key, Tail(msgs))
         IN IF IsThrow(text) THEN text
            ELSE IF IsThrow(rest) THEN rest
            ELSE Ok(<<text[2]>> \o rest[2])

getAttachmentMeta(key, msg) ==
    IF Falsy(key) \/ Falsy(Get(msg, "attachmentPath")) THEN Null
    ELSE LET plain == gcmDecrypt(key, fromBase64(Get(msg, "iv")),
                                 fromBase64(Get(msg, "encryptedContent")))
         IN IF IsThrow(plain) THEN Null
            ELSE LET meta == JSON_parse(bytesToUtf8(plain[2]))
                 IN IF IsThrow(meta) THEN Null ELSE meta[2]

\* the file decrypted with the IV of the message instead of meta.fileIv
downloadAttachment_MessageIv(key, msg, encBase64) ==
    LET meta == getAttachmentMeta(key, msg)
    IN IF Falsy(meta) \/ Falsy(Get(meta, "fileIv")) THEN Throw(Str("Metadonnees invalides"))
       ELSE LET decryptedBytes == gcmDecrypt(key, fromBase64(Get(msg, "iv")),
                                             fromBase64(encBase64))
            IN IF IsThrow(decryptedBytes) THEN decryptedBytes
               ELSE Ok(Obj(<< <<"name", OrElse(Get(meta, "filename"), Str("download.bin"))>>,
                              <<"content", toBase64(decryptedBytes[2])>> >>))

\* the try block of handleDownload once the blob is downloaded: the file
\* written to the cache directory, or the exception thrown
downloadAttachment(key, msg, encBase64) ==
    LET meta == getAttachmentMeta(key, msg)
    IN IF Falsy(meta) \/ Falsy(Get(meta, "fileIv")) THEN Throw(Str("Metadonnees invalides"))
       ELSE LET decryptedBytes == gcmDecrypt(key, fromBase64(Get(meta, "fileIv")),
                                             fromBase64(encBase64))
            IN IF IsThrow(decryptedBytes) THEN decryptedBytes
               ELSE Ok(Obj(<< <<"name", OrElse(Get(meta, "filename"), Str("download.bin"))>>,
                              <<"content", toBase64(decryptedBytes[2])>> >>))

decryptPreview(id, thread) ==
    LET last == Get(thread, "lastMessage")
        peerId == Get(Get(thread, "peer"), "id")
    IN IF Falsy(id) \/ Falsy(peerId) \/ Falsy(last)
       THEN Ok(OrElse(Get(last, "encryptedContent"), Str("")))
       ELSE LET plain == gcmDecrypt(previewKey(id, peerId), fromBase64(Get(last, "iv")),
                                    fromBase64(Get(last, "encryptedContent")))
            IN IF IsThrow(plain) THEN Ok(OrElse(Get(last, "encryptedContent"), Str("")))
               ELSE Ok(bytesToUtf8(plain[2]))

\* the description line of a thread in renderItem
threadSubtitle(id, thread) ==
    LET last == Get(thread, "lastMessage")
        preview == IF Falsy(last) THEN Ok(Str("")) ELSE decryptPreview(id, thread)
    IN IF IsThrow(preview) THEN preview
       ELSE IF ~Falsy(Get(last, "attachmentPath")) THEN Ok(Str("(paperclip) Media"))
       ELSE Ok(OrElse(preview[2], Str("Nouveau contact")))

\* ways a stored message can fail to decrypt under the conversation key
DecryptFailureCases == {"data_tampered", "iv_altered", "other_key", "not_base64"}

ChatIdle ==
    /\ chatPc = "idle"
    /\ messages = <<>>
    /\ posted = <<>>
    /\ blobs = <<>>
    /\ shown = Undefined
    /\ subtitle = Undefined
    /\ downloaded = Undefined

ChatStart ==
    /\ chatPc = "compose"
    /\ messages = <<>>
    /\ posted = <<>>
    /\ blobs = <<>>
    /\ shown = Undefined
    /\ subtitle = Undefined
    /\ downloaded = Undefined

\* the ChatMessage the backend makes of a posted body
StoredMessage(body) ==
    Obj(<< <<"encryptedContent", Get(body, "encryptedContent")>>,
           <<"iv", Get(body, "iv")>>,
           <<"attachmentPath", Coalesce(Get(body, "attachmentPath"), Null)>> >>)

\* AccountId sends a text to PeerId
ChatSendText(content, r) ==
    /\ chatPc = "compose" /\ Len(messages) < MaxThread
    /\ LET key == conversationKey(AccountId, PeerId)
       IN messages' = Append(messages, StoredMessage(TextMessage(key, PeerId, content, r)))
    /\ posted' = Append(posted, [kind |-> "text", text |-> content, file |-> Undefined,
                                 rFile |-> 0, rMsg |-> r, damage |-> "none"])
    /\ blobs' = Append(blobs, Null)
    /\ UNCHANGED <<chatPc, shown, subtitle, downloaded>>
    /\ UNCHANGED exceptChat

\* AccountId sends a file to PeerId
ChatSendFile(file, rFile, rMsg) ==
    /\ chatPc = "compose" /\ Len(messages) < MaxThread
    /\ LET key == conversationKey(AccountId, PeerId)
       IN /\ messages' = Append(messages,
                 StoredMessage(FileMessage(key, PeerId, file, rFile, rMsg, UploadPath)))
          /\ blobs' = Append(blobs, FileBlob(key, file, rFile))
    /\ posted' = Append(posted, [kind |-> "file", text |-> FileLabel(file.name), file |-> file,
                                 rFile |-> rFile, rMsg |-> rMsg, damage |-> "none"])
    /\ UNCHANGED <<chatPc, shown, subtitle, downloaded>>
    /\ UNCHANGED exceptChat

DamagedMessage(msg, c) ==
    CASE c = "data_tampered" -> Set(msg, "encryptedContent", TamperedData)
      [] c = "iv_altered" -> Set(msg, "iv", AlteredIv)
      [] c = "other_key" ->
             Set(msg, "encryptedContent",
                 toBase64(gcmEncrypt(getRandomBytes(KEY_LEN, 0), fromBase64(Get(msg, "iv")),
                                     utf8ToBytes(Str("bonjour")))))
      [] c = "not_base64" -> Set(msg, "encryptedContent", Str("%%%"))
      [] OTHER -> msg

\* the conversation is stored; message i, if any, is damaged as c says
ChatStore(i, c) ==
    /\ chatPc = "compose" /\ messages # <<>>
    /\ i \in 0..Len(messages)
    /\ messages' = [k \in DOMAIN messages |->
                        IF k = i THEN DamagedMessage(messages[k], c) ELSE messages[k]]
    /\ posted' = [k \in DOMAIN posted |->
                      IF k = i THEN [posted[k] EXCEPT !.damage = c] ELSE posted[k]]
    /\ chatPc' = "stored"
    /\ UNCHANGED <<blobs, shown, subtitle, downloaded>>
    /\ UNCHANGED exceptChat

\* PeerId opens the conversation: the FlatList renders every message
ChatRender ==
    /\ chatPc = "stored"
    /\ shown' = renderMessages(conversationKey(PeerId, AccountId), messages)
    /\ chatPc' = "rendered"
    /\ UNCHANGED <<messages, posted, blobs, subtitle, downloaded>>
    /\ UNCHANGED exceptChat

\* PeerId opens the thread list
ChatList ==
    /\ chatPc = "rendered"
    /\ subtitle' = threadSubtitle(PeerId,
                        Obj(<< <<"peer", Obj(<< <<"id", AccountId>> >>)>>,
                               <<"lastMessage", messages[Len(messages)]>> >>))
    /\ chatPc' = "listed"
    /\ UNCHANGED <<messages, posted, blobs, shown, downloaded>>
    /\ UNCHANGED exceptChat

\* handleDownload(messages[i]); fetched: downloadAsync answered 200
ChatDownload(i, fetched) ==
    /\ chatPc = "listed"
    /\ i \in DOMAIN messages
    /\ LET key == conversationKey(PeerId, AccountId)
           msg == messages[i]
           file == downloadAttachment(key, msg, blobs[i])
       IN downloaded' =
              IF Falsy(Get(msg, "attachmentPath")) \/ Falsy(key) THEN <<"none", i, fetched, Null>>
              ELSE IF ~fetched \/ IsThrow(file) THEN <<"error", i, fetched, Null>>
              ELSE <<"shared", i, fetched, file[2]>>
    /\ chatPc' = "downloaded"
    /\ UNCHANGED <<messages, posted, blobs, shown, subtitle>>
    /\ UNCHANGED exceptChat

ChatNext ==
    \/ \E content \in Contents, r \in KeyEntropy : ChatSendText(content, r)
    \/ \E file \in Files, rFile, rMsg \in Entropy : ChatSendFile(file, rFile, rMsg)
    \/ \E i \in 0..MaxThread, c \in DecryptFailureCases : ChatStore(i, c)
    \/ ChatRender
    \/ ChatList
    \/ \E i \in 1..MaxThread, fetched \in BOOLEAN : ChatDownload(i, fetched)

----------------------------------------------------------------------------
(* derivePasswordHash, encryptGCM and decryptGCM on their own *)

FnEmails == { Chars(<<"a", "@", "b">>), Chars(<<" ", "A", "@", "B", " ">>),
              Chars(<<"A", "@", "b", "\t">>), Chars(<<"b", "@", "a">>),
              Chars(<<"a", " ", "@", "b">>) }

FnPasswords == { Str("pw1"), Str("pw2"), Str("PW1"), Str(" pw1") }

FnKeys == { getRandomBytes(KEY_LEN, 1),
            deriveAesKey(Str("pw1"), toBase64(getRandomBytes(SALT_LEN, 1))),
            chatKey(AccountId, PeerId) }

FnPlaintexts == { utf8ToBytes(Str("")), utf8ToBytes(Str("bonjour")),
                  getRandomBytes(KEY_LEN, 2), <<"file", 1>> }

FnIdle ==
    /\ fnPc = "idle"
    /\ fnArgs = Undefined
    /\ hashes = Undefined
    /\ sealed = Undefined
    /\ unsealed = Undefined

FnStart ==
    /\ fnPc = "start"
    /\ fnArgs \in [e1 : FnEmails, e2 : FnEmails, pw1 : FnPasswords, pw2 : FnPasswords,
                    key : FnKeys, plaintext : FnPlaintexts]
    /\ hashes = Undefined
    /\ sealed = Undefined
    /\ unsealed = Undefined

FnHash ==
    /\ fnPc = "start"
    /\ hashes' = [e1pw1 |-> derivePasswordHash(fnArgs.e1, fnArgs.pw1),
                  e2pw1 |-> derivePasswordHash(fnArgs.e2, fnArgs.pw1),
                  e1pw2 |-> derivePasswordHash(fnArgs.e1, fnArgs.pw2),
                  again |-> derivePasswordHash(fnArgs.e1, fnArgs.pw1)]
    /\ fnPc' = "hashed"
    /\ UNCHANGED <<fnArgs, sealed, unsealed>>
    /\ UNCHANGED exceptFn

FnEncrypt(r) ==
    /\ fnPc = "start"
    /\ sealed' = encryptGCM(fnArgs.key, fnArgs.plaintext, r)
    /\ fnPc' = "encrypted"
    /\ UNCHANGED <<fnArgs, hashes, unsealed>>
    /\ UNCHANGED exceptFn

FnDecrypt ==
    /\ fnPc = "encrypted"
    /\ unsealed' = decryptGCM(fnArgs.key, sealed.iv, sealed.ciphertext)
    /\ fnPc' = "decrypted"
    /\ UNCHANGED <<fnArgs, hashes, sealed>>
    /\ UNCHANGED exceptFn

FnNext ==
    \/ FnHash
    \/ \E r \in Entropy : FnEncrypt(r)
    \/ FnDecrypt

----------------------------------------------------------------------------
(* screens/chat/ChatConversationScreen.tsx: what the screen sends and the  *)
(* files it leaves in FileSystem.cacheDirectory                            *)

\* useAuth().user: a session with its id, or one restored without a stored userId
ScreenUsers == { Obj(<< <<"id", AccountId>>, <<"role", Str("PATIENT")>> >>),
                 Obj(<< <<"id", Undefined>>, <<"role", Str("PATIENT")>> >>) }

\* route.params?.peerId
PeerParams == {PeerId, Undefined}

Inputs == Contents \cup {Str("")}

\* the id of the first message that has another party than the user
RECURSIVE OtherParty(_, _)
OtherParty(msgs, id) ==
    IF msgs = <<>> THEN Null
    ELSE LET sender == Get(Get(Head(msgs), "sender"), "id")
             recipient == Get(Get(Head(msgs), "recipient"), "id")
         IN IF sender = id /\ recipient = id THEN OtherParty(Tail(msgs), id)
            ELSE IF ~Falsy(sender) /\ sender # id THEN sender
            ELSE IF ~Falsy(recipient) /\ recipient # id THEN recipient
            ELSE Null

resolvedPeerId(peerIdParam, u, msgs) ==
    IF ~Falsy(peerIdParam) THEN peerIdParam
    ELSE IF Falsy(Get(u, "id")) THEN Null
    ELSE OtherParty(msgs, Get(u, "id"))

\* the conversationKey memo for the screen's user, route and messages
screenKey(peerIdParam, u, msgs) ==
    conversationKey(Get(u, "id"), Coalesce(peerIdParam, resolvedPeerId(peerIdParam, u, msgs)))

\* resolvedPeerId ?? peerIdParam
screenTarget(peerIdParam, u, msgs) ==
    Coalesce(resolvedPeerId(peerIdParam, u, msgs), peerIdParam)

CacheUri(kind, name) == <<"cacheDirectory", kind, name>>

CacheWrite(dir, uri, content) ==
    {f \in dir : f.uri # uri} \cup {[uri |-> uri, content |-> content]}

CacheDelete(dir, uri) == {f \in dir : f.uri # uri}

CacheRead(dir, uri) == (CHOOSE f \in dir : f.uri = uri).content

\* the attachment the peer sent, as GET /chat/conversation/:id returns it
PeerFile == [name |-> Str("bilan.pdf"), mimeType |-> Str("application/pdf"),
             bytes |-> <<"file", 2>>]

PeerAttachment ==
    Spread(StoredMessage(FileMessage(chatKey(PeerId, AccountId), AccountId, PeerFile,
                                     1, 2, UploadPath)),
           Obj(<< <<"id", Str("m1")>>,
                  <<"sender", Obj(<< <<"id", PeerId>> >>)>>,
                  <<"recipient", Obj(<< <<"id", AccountId>> >>)>> >>))

PeerBlob == FileBlob(chatKey(PeerId, AccountId), PeerFile, 1)

\* where a handler stopped: at its guard, at the step that threw, or at its end
Ended(op, end) == [op |-> op, end |-> end]

SendIdle ==
    /\ scrPc = "idle"
    /\ scrUser = Null
    /\ scrPeer = Undefined
    /\ inbox = <<>>
    /\ cacheDir = {}
    /\ wire = <<>>
    /\ scrOp = Ended("none", "none")
    /\ written = {}

SendStart ==
    /\ scrPc = "closed"
    /\ scrUser = Null
    /\ scrPeer = Undefined
    /\ inbox = <<>>
    /\ cacheDir = {}
    /\ wire = <<>>
    /\ scrOp = Ended("none", "none")
    /\ written = {}

\* the screen is mounted for a user and a route
SendOpen(u, peerIdParam) ==
    /\ scrPc = "closed"
    /\ scrPc' = "open"
    /\ scrUser' = u
    /\ scrPeer' = peerIdParam
    /\ scrOp' = Ended("open", "end")
    /\ UNCHANGED <<inbox, cacheDir, wire, written>>
    /\ UNCHANGED exceptSend

\* loadMessages(); accepted: GET /chat/conversation/:id succeeded
SendLoad(accepted) ==
    /\ scrPc = "open"
    /\ LET targetId == Coalesce(scrPeer, resolvedPeerId(scrPeer, scrUser, inbox))
       IN IF Falsy(targetId)
          THEN UNCHANGED inbox /\ scrOp' = Ended("load", "return")
          ELSE IF ~accepted
          THEN UNCHANGED inbox /\ scrOp' = Ended("load", "get")
          ELSE inbox' = <<PeerAttachment>> /\ scrOp' = Ended("load", "end")
    /\ UNCHANGED <<scrPc, scrUser, scrPeer, cacheDir, wire, written>>
    /\ UNCHANGED exceptSend

\* handleSendText() with inputValue.trim() = input; r: the outcome of getRandomBytes(12);
\* accepted: POST /chat/send succeeded
SendText(input, r, accepted) ==
    /\ scrPc = "open" /\ Len(wire) < MaxWire
    /\ LET content == input
           targetId == screenTarget(scrPeer, scrUser, inbox)
           key == screenKey(scrPeer, scrUser, inbox)
       IN IF Falsy(content) \/ Falsy(targetId) \/ Falsy(Get(scrUser, "id"))
          THEN UNCHANGED wire /\ scrOp' = Ended("sendText", "return")
          ELSE IF Falsy(key)
          THEN UNCHANGED wire /\ scrOp' = Ended("sendText", "end")
          ELSE /\ wire' = Append(wire, Request("POST", "/chat/send",
                                               TextMessage(key, targetId, content, r)))
               /\ scrOp' = Ended("sendText", IF accepted THEN "end" ELSE "send")
    /\ UNCHANGED <<scrPc, scrUser, scrPeer, inbox, cacheDir, written>>
    /\ UNCHANGED exceptSend

\* the steps of processFileAndSend that can throw, in order
SendFileSteps == <<"read", "write", "upload", "send", "delete">>

StepsOf(steps) == {steps[i] : i \in DOMAIN steps}

\* step a comes before step b
Before(steps, a, b) ==
    \E i, j \in DOMAIN steps : i < j /\ steps[i] = a /\ steps[j] = b

\* step s was completed by a handler that stopped at failAt ("end": at its end)
Passed(steps, s, failAt) == failAt = "end" \/ Before(steps, s, failAt)

\* processFileAndSend(file); t: Date.now(); failAt: the step that threw, or "end"
SendFile(file, rFile, rMsg, t, failAt) ==
    /\ scrPc = "open" /\ Len(wire) + 2 <= MaxWire
    /\ LET targetId == screenTarget(scrPeer, scrUser, inbox)
           key == screenKey(scrPeer, scrUser, inbox)
           tempUri == CacheUri("enc", t)
           stored == IF Passed(SendFileSteps, "write", failAt)
                     THEN CacheWrite(cacheDir, tempUri, FileBlob(key, file, rFile))
                     ELSE cacheDir
           upload == Request("POST", "/chat/attachment",
                             Obj(<< <<"file", CacheRead(stored, tempUri)>> >>))
           send == Request("POST", "/chat/send",
                           FileMessage(key, targetId, file, rFile, rMsg, UploadPath))
       IN IF Falsy(targetId) \/ Falsy(Get(scrUser, "id")) \/ Falsy(key)
          THEN /\ UNCHANGED <<cacheDir, wire>>
               /\ written' = {}
               /\ scrOp' = Ended("sendFile", "return")
          ELSE /\ cacheDir' = IF Passed(SendFileSteps, "delete", failAt)
                              THEN CacheDelete(stored, tempUri)
                              ELSE stored
               /\ wire' = IF Passed(SendFileSteps, "upload", failAt)
                          THEN wire \o << upload, send >>
                          ELSE IF Passed(SendFileSteps, "write", failAt)
                          THEN Append(wire, upload)
                          ELSE wire
               /\ written' = IF Passed(SendFileSteps, "write", failAt) THEN {tempUri} ELSE {}
               /\ scrOp' = Ended("sendFile", failAt)
    /\ UNCHANGED <<scrPc, scrUser, scrPeer, inbox>>
    /\ UNCHANGED exceptSend

\* the steps of handleDownload that can throw, in order: "meta" and "decrypt"
\* throw when the message or the blob does not decrypt, "status" when the
\* answer is not 200, the others when the device or the network fails
DownloadSteps == <<"meta", "download", "status", "read", "decrypt", "write", "share">>

\* handleDownload(inbox[i]); encBase64: the body GET /chat/attachment/:name
\* answered with; failAt: the step that threw, or "end"
SendDownload(i, encBase64, failAt) ==
    /\ scrPc = "open" /\ i \in DOMAIN inbox
    /\ LET msg == inbox[i]
           key == screenKey(scrPeer, scrUser, inbox)
           meta == getAttachmentMeta(key, msg)
           file == downloadAttachment(key, msg, encBase64)
           localEncUri == CacheUri("dl", Get(msg, "id"))
           localDecUri == CacheUri("file", OrElse(Get(meta, "filename"), Str("download.bin")))
           fetched == IF Passed(DownloadSteps, "download", failAt)
                      THEN CacheWrite(cacheDir, localEncUri, encBase64)
                      ELSE cacheDir
       IN IF Falsy(Get(msg, "attachmentPath")) \/ Falsy(key)
          THEN /\ UNCHANGED cacheDir
               /\ written' = {}
               /\ scrOp' = Ended("download", "return")
          ELSE \* the outcome asked for is one this message and this blob can have
               /\ (Falsy(meta) \/ Falsy(Get(meta, "fileIv"))) <=> failAt = "meta"
               /\ Passed(DownloadSteps, "read", failAt) => (IsThrow(file) <=> failAt = "decrypt")
               /\ cacheDir' = IF Passed(DownloadSteps, "write", failAt)
                              THEN CacheWrite(fetched, localDecUri, Get(file[2], "content"))
                              ELSE fetched
               /\ written' =
                      (IF Passed(DownloadSteps, "download", failAt) THEN {localEncUri} ELSE {})
                      \cup (IF Passed(DownloadSteps, "write", failAt) THEN {localDecUri} ELSE {})
               /\ scrOp' = Ended("download", failAt)
    /\ UNCHANGED <<scrPc, scrUser, scrPeer, inbox, wire>>
    /\ UNCHANGED exceptSend

\* the screen is left; the cache directory stays
SendClose ==
    /\ scrPc = "open"
    /\ scrPc' = "closed"
    /\ scrUser' = Null
    /\ scrPeer' = Undefined
    /\ inbox' = <<>>
    /\ scrOp' = Ended("close", "end")
    /\ UNCHANGED <<cacheDir, wire, written>>
    /\ UNCHANGED exceptSend

SendNext ==
    \/ \E u \in ScreenUsers, peerIdParam \in PeerParams : SendOpen(u, peerIdParam)
    \/ \E accepted \in BOOLEAN : SendLoad(accepted)
    \/ \E input \in Inputs, r \in Entropy, accepted \in BOOLEAN : SendText(input, r, accepted)
    \/ \E file \in Files, rFile, rMsg \in Entropy, t \in Clock,
          failAt \in StepsOf(SendFileSteps) \cup {"end"} :
          SendFile(file, rFile, rMsg, t, failAt)
    \/ \E i \in 1..MaxThread, encBase64 \in {PeerBlob, TamperedData},
          failAt \in StepsOf(DownloadSteps) \cup {"end"} :
          SendDownload(i, encBase64, failAt)
    \/ SendClose

----------------------------------------------------------------------------
(* api/client.ts: the interceptors of `api`, with requests under way at the *)
(* same time.  A request is sent, answered by the backend, and its answer   *)
(* handled by the response interceptor; each of the three is one step, and  *)
(* the steps of different requests interleave.                              *)

Slots == 1..NumRequests

\* a patient's account and the session handleLogin makes of it
NetPassword == Str("hunter2!")
NetProfile == Obj(<< <<"firstName", Str("Ada")>> >>)
NetZk == buildPatientZkPayload(NetPassword, NetProfile, 1, 1, 1, 1)
NetAccount ==
    NewAccount(RegisterBody(Chars(<<"a", "@", "b">>),
                            derivePasswordHash(Chars(<<"a", "@", "b">>), NetPassword),
                            Str("jd"), Str("PATIENT"), NetZk))

NetSession(n) ==
    LET data == AuthResponse(NetAccount, n)
        opened == decryptPatientVault(NetPassword,
                      Obj(<< <<"salt", Get(data, "salt")>>,
                             <<"encryptedMasterKey", Get(data, "encryptedMasterKey")>>,
                             <<"encryptedProfile", Get(data, "encryptedProfile")>> >>))
    IN Set(Set(data, "email", Chars(<<"a", "@", "b">>)),
           "patientVault", LoginVault(opened[2], data))

NetForms == {f \in Forms : Get(f, "objectives") = Str("sleep")}

\* the calls made through `api` that are followed
Kinds == {"get", "save", "logout"}

UrlOf(kind) ==
    CASE kind = "save" -> "/patients/me"
      [] kind = "logout" -> "/auth/logout"
      [] OTHER -> "/appointments/my"

NoRequest ==
    [pc |-> "idle", kind |-> "none", url |-> "", retry |-> FALSE, auth |-> Undefined,
     bearer |-> Undefined, status |-> 0, granted |-> 0, why |-> "none", vault |-> Null,
     firstAuth |-> Undefined, statuses |-> <<>>, refreshes |-> 0, sends |-> 0,
     forced |-> FALSE, result |-> "none"]

NetIdle ==
    /\ reqs = [i \in Slots |-> NoRequest]
    /\ srvAccess = {}
    /\ srvRefresh = {}
    /\ srvUsed = {}
    /\ issued = 0
    /\ loggedOut = FALSE

\* the request interceptor: the Authorization header of a request sent now
Authorization(m, header) == IF Falsy(m.accessToken) THEN header ELSE m.accessToken

\* the interceptor refreshes on 401 whatever the request was
ShouldRefresh_NoRetryFlag(status, retry, url) == status = 401 /\ url # "/auth/refresh"

\* the condition under which the response interceptor tries a refresh
ShouldRefresh(status, retry, url) == status = 401 /\ ~retry /\ url # "/auth/refresh"

\* POST /auth/login answered 200, then persistSession
NetLogin ==
    /\ ~loading /\ user = Null
    /\ issued < MaxIssued
    /\ PersistSession(NetSession(issued + 1))
    /\ issued' = issued + 1
    /\ srvAccess' = srvAccess \cup {issued + 1}
    /\ srvRefresh' = srvRefresh \cup {issued + 1}
    /\ loggedOut' = FALSE
    /\ UNCHANGED <<reqs, srvUsed>>
    /\ UNCHANGED netFrame
    /\ UNCHANGED exceptNet

\* the vault onSave will hand to updatePatientVault once PATCH /patients/me is answered
SavedVault(vault, form, t, r) ==
    LET profilePayload == Set(form, "updatedAt", ISOString(t))
    IN Set(Set(vault, "encryptedProfile",
               encryptProfileWithMasterKey(Get(vault, "masterKeyB64"), profilePayload, r)),
           "profile", profilePayload)

\* a screen of the authenticated stack calls the API: the request interceptor
\* runs and the request leaves
NetCall(i, kind, form, t, r) ==
    /\ ~loading /\ user # Null
    /\ reqs[i].pc = "idle"
    /\ \A k \in Slots : k < i => reqs[k].pc # "idle"
    /\ kind = "save" => ~Falsy(Get(ctxPatientVault, "masterKeyB64"))
    /\ reqs' = [reqs EXCEPT ![i] =
                   [NoRequest EXCEPT !.pc = "flight",
                                     !.kind = kind,
                                     !.url = UrlOf(kind),
                                     !.auth = Authorization(Mem, Undefined),
                                     !.firstAuth = Authorization(Mem, Undefined),
                                     !.vault = IF kind = "save"
                                               THEN SavedVault(ctxPatientVault, form, t, r)
                                               ELSE Null,
                                     !.sends = 1]]
    /\ UNCHANGED <<srvAccess, srvRefresh, srvUsed, issued, loggedOut>>
    /\ UNCHANGED <<user, ctxPatientVault>>
    /\ UNCHANGED memVars
    /\ UNCHANGED netFrame
    /\ UNCHANGED exceptNet

TokenNo(jwt) == IF jwt[1] = "jwt" THEN jwt[3] ELSE 0

\* the backend answers request i; up: the answer gets through (status 0: no
\* response); revoke: a logout that is accepted ends the backend's session
NetServe(i, up, revoke) ==
    /\ reqs[i].pc = "flight"
    /\ LET valid == TokenNo(reqs[i].auth) \in srvAccess
           status == IF ~up THEN 0 ELSE IF valid THEN 200 ELSE 401
           ends == revoke /\ reqs[i].kind = "logout" /\ valid
       IN /\ revoke => reqs[i].kind = "logout" /\ valid
          /\ reqs' = [reqs EXCEPT ![i].pc = "answered",
                                  ![i].status = status,
                                  ![i].statuses = Append(@, status)]
          /\ srvAccess' = IF ends THEN {} ELSE srvAccess
          /\ srvRefresh' = IF ends THEN {} ELSE srvRefresh
    /\ UNCHANGED <<srvUsed, issued, loggedOut>>
    /\ UNCHANGED <<user, ctxPatientVault>>
    /\ UNCHANGED memVars
    /\ UNCHANGED netFrame
    /\ UNCHANGED exceptNet

\* the access tokens, or the refresh tokens, reach their expiry
NetExpire(which) ==
    /\ which = "access" => srvAccess # {}
    /\ which = "refresh" => srvRefresh # {}
    /\ srvAccess' = IF which = "access" THEN {} ELSE srvAccess
    /\ srvRefresh' = IF which = "refresh" THEN {} ELSE srvRefresh
    /\ UNCHANGED <<reqs, srvUsed, issued, loggedOut>>
    /\ UNCHANGED <<user, ctxPatientVault>>
    /\ UNCHANGED memVars
    /\ UNCHANGED netFrame
    /\ UNCHANGED exceptNet

\* the promise of request i settles with m as the module state: the caller's
\* continuation runs.  handleLogout clears in its finally block; onSave
\* hands its vault to updatePatientVault when the request succeeded.
Settle(i, m, result, forced) ==
    LET kind == reqs[i].kind
    IN /\ reqs' = [reqs EXCEPT ![i].pc = "settled",
                               ![i].result = result,
                               ![i].forced = forced]
       /\ CASE kind = "logout" ->
                   /\ Commit(authStorage_clear(m))
                   /\ user' = Null
                   /\ ctxPatientVault' = Null
                   /\ loggedOut' = TRUE
            [] kind = "save" /\ result = "ok" ->
                   /\ Commit(authStorage_saveVault(m, reqs[i].vault))
                   /\ ctxPatientVault' = reqs[i].vault
                   /\ UNCHANGED <<user, loggedOut>>
            [] OTHER ->
                   /\ Commit(m)
                   /\ UNCHANGED <<user, ctxPatientVault, loggedOut>>

\* the response interceptor handles the answer to request i
NetReceive(i) ==
    /\ reqs[i].pc = "answered"
    /\ IF reqs[i].status = 200
       THEN Settle(i, Mem, "ok", FALSE)
       ELSE IF ~ShouldRefresh(reqs[i].status, reqs[i].retry, reqs[i].url)
       THEN Settle(i, Mem, "rejected", FALSE)
       ELSE IF Falsy(refreshToken)
       THEN Settle(i, authStorage_clear(Mem), "rejected", TRUE)
       ELSE /\ reqs[i].refreshes < MaxAttempts
            /\ reqs' = [reqs EXCEPT ![i].pc = "refreshFlight",
                                    ![i].retry = TRUE,
                                    ![i].bearer = refreshToken,
                                    ![i].refreshes = @ + 1]
            /\ UNCHANGED <<user, ctxPatientVault, loggedOut>>
            /\ UNCHANGED memVars
    /\ UNCHANGED <<srvAccess, srvRefresh, srvUsed, issued>>
    /\ UNCHANGED netFrame
    /\ UNCHANGED exceptNet

\* the backend answers POST /auth/refresh of request i: a refresh token is
\* exchanged once
NetServeRefresh(i, up) ==
    /\ reqs[i].pc = "refreshFlight"
    /\ LET n == TokenNo(reqs[i].bearer)
           granted == up /\ n \in srvRefresh
       IN /\ granted => issued < MaxIssued
          /\ reqs' = [reqs EXCEPT ![i].pc = "refreshAnswered",
                                  ![i].status = IF ~up THEN 0 ELSE IF granted THEN 200 ELSE 401,
                                  ![i].granted = IF granted THEN issued + 1 ELSE 0,
                                  ![i].why = IF granted THEN "granted"
                                             ELSE IF ~up THEN "down"
                                             ELSE IF n \in srvUsed THEN "used"
                                             ELSE "expired"]
          /\ issued' = IF granted THEN issued + 1 ELSE issued
          /\ srvRefresh' = IF granted THEN (srvRefresh \ {n}) \cup {issued + 1} ELSE srvRefresh
          /\ srvAccess' = IF granted THEN srvAccess \cup {issued + 1} ELSE srvAccess
          /\ srvUsed' = IF granted THEN srvUsed \cup {n} ELSE srvUsed
    /\ UNCHANGED loggedOut
    /\ UNCHANGED <<user, ctxPatientVault>>
    /\ UNCHANGED memVars
    /\ UNCHANGED netFrame
    /\ UNCHANGED exceptNet

\* the response interceptor gets the answer to its refresh: authStorage.set
\* and the request sent again, or authStorage.clear and the request rejected
NetReceiveRefresh(i) ==
    /\ reqs[i].pc = "refreshAnswered"
    /\ IF reqs[i].status = 200
       THEN LET newAccess == Jwt("access", reqs[i].granted)
                newRefresh == Jwt("refresh", reqs[i].granted)
                m == authStorage_set(Mem, Obj(<< <<"accessToken", newAccess>>,
                                                 <<"refreshToken", newRefresh>> >>))
            IN /\ reqs[i].sends < MaxAttempts
               /\ Commit(m)
               /\ reqs' = [reqs EXCEPT ![i].pc = "flight",
                                       ![i].auth = Authorization(m, newAccess),
                                       ![i].sends = @ + 1]
               /\ UNCHANGED <<user, ctxPatientVault, loggedOut>>
       ELSE Settle(i, authStorage_clear(Mem), "rejected", TRUE)
    /\ UNCHANGED <<srvAccess, srvRefresh, srvUsed, issued>>
    /\ UNCHANGED netFrame
    /\ UNCHANGED exceptNet

NetNext ==
    \/ RestoreSession
    \/ NetLogin
    \/ \E i \in Slots, kind \in Kinds, form \in NetForms, t \in Clock, r \in KeyEntropy :
          NetCall(i, kind, form, t, r)
    \/ \E i \in Slots, up, revoke \in BOOLEAN : NetServe(i, up, revoke)
    \/ \E which \in {"access", "refresh"} : NetExpire(which)
    \/ \E i \in Slots : NetReceive(i)
    \/ \E i \in Slots, up \in BOOLEAN : NetServeRefresh(i, up)
    \/ \E i \in Slots : NetReceiveRefresh(i)

----------------------------------------------------------------------------
(* api/client.ts: authStorage.set, saveVault and clear followed one         *)
(* SecureStore call at a time, with the process killed at any moment and    *)
(* the session restored at the next start                                   *)

NoJob == [op |-> "none", args |-> Null, step |-> 0, caller |-> "none"]

StoreKeys == <<"accessToken", "refreshToken", "userRole", "userId", "userPseudo",
               "patientVault">>

\* a psychologist's session as handleLogin hands it to persistSession
PsySession(n) ==
    Set(Set(AuthResponse(PsyAccount, n), "email", PsyEmail), "patientVault", Null)

\* the argument persistSession gives authStorage.set
SessionTokens(data) ==
    Obj(<< <<"accessToken", Get(data, "accessToken")>>,
           <<"refreshToken", Get(data, "refreshToken")>>,
           <<"userRole", Get(data, "role")>>,
           <<"userId", Get(data, "userId")>>,
           <<"userPseudo", Get(data, "pseudo")>>,
           <<"patientVault", Get(data, "patientVault")>> >>)

\* the argument the response interceptor gives authStorage.set
RefreshTokens(n) ==
    Obj(<< <<"accessToken", Jwt("access", n)>>, <<"refreshToken", Jwt("refresh", n)>> >>)

\* authStorage.set up to its first await
SetBegin(m, tokens) ==
    [m EXCEPT !.accessToken = Get(tokens, "accessToken"),
              !.refreshToken = Get(tokens, "refreshToken")]

\* authStorage.set: its k-th SecureStore call with the assignment before it
SetCall(m, tokens, k) ==
    LET key == StoreKeys[k]
        value == Get(tokens, key)
    IN CASE k = 1 -> [m EXCEPT !.store.accessToken = m.accessToken]
         [] k = 2 -> [m EXCEPT !.store.refreshToken = m.refreshToken]
         [] k = 3 -> IF Falsy(value) THEN m ELSE [m EXCEPT !.store.userRole = value]
         [] k = 4 -> IF Falsy(value) THEN m
                     ELSE [m EXCEPT !.userId = value, !.store.userId = value]
         [] k = 5 -> IF Falsy(value) THEN m
                     ELSE [m EXCEPT !.userPseudo = value, !.store.userPseudo = value]
         [] OTHER -> IF Falsy(value) THEN m
                     ELSE [m EXCEPT !.patientVault = value,
                                    !.store.patientVault = JSON_stringify(value)]

\* authStorage.clear up to its first await
ClearBegin(m) ==
    [m EXCEPT !.accessToken = Null, !.refreshToken = Null, !.patientVault = Null]

\* authStorage.clear: its k-th SecureStore.deleteItemAsync
ClearCall(m, k) == [m EXCEPT !.store[StoreKeys[k]] = Null]

\* authStorage.saveVault up to its await
SaveVaultBegin(m, vault) == [m EXCEPT !.patientVault = vault]

\* the SecureStore calls an authStorage call makes
CallsOf(op) == IF op = "saveVault" THEN 1 ELSE Len(StoreKeys)

\* the callers of authStorage that are followed, and what each does once its
\* call has returned
Callers == {"persistSession", "interceptor", "handleLogout", "updatePatientVault"}

\* a caller starts an authStorage call
Begin(caller, op, args, m) ==
    /\ ~loading /\ job = NoJob
    /\ job' = [op |-> op, args |-> args, step |-> 0, caller |-> caller]
    /\ Commit(m)
    /\ Done(caller, "begun")
    /\ UNCHANGED <<user, loading, srvAccount, sent, lastOpen, lastCase, lastPassword, hist>>
    /\ UNCHANGED exceptBoot

\* handleLogin got its answer: persistSession(data)
BootLogin(data) ==
    /\ user = Null
    /\ Begin("persistSession", "set", data, SetBegin(Mem, SessionTokens(data)))
    /\ UNCHANGED ctxPatientVault

\* the response interceptor got new tokens: authStorage.set
BootRefresh(n) ==
    /\ user # Null /\ ~Falsy(refreshToken)
    /\ Begin("interceptor", "set", RefreshTokens(n), SetBegin(Mem, RefreshTokens(n)))
    /\ UNCHANGED ctxPatientVault

\* the response interceptor gave up: authStorage.clear
BootGiveUp ==
    /\ user # Null
    /\ Begin("interceptor", "clear", Null, ClearBegin(Mem))
    /\ UNCHANGED ctxPatientVault

\* handleLogout after POST /auth/logout
BootLogout ==
    /\ user # Null
    /\ Begin("handleLogout", "clear", Null, ClearBegin(Mem))
    /\ UNCHANGED ctxPatientVault

\* onSave got its answer: updatePatientVault(vault)
BootSave(form, t, r) ==
    /\ user # Null /\ ~Falsy(Get(ctxPatientVault, "masterKeyB64"))
    /\ LET vault == SavedVault(ctxPatientVault, form, t, r)
       IN /\ Begin("updatePatientVault", "saveVault", vault, SaveVaultBegin(Mem, vault))
          /\ ctxPatientVault' = vault

\* the call under way makes its next SecureStore call; after the last one
\* the caller goes on
BootStep ==
    /\ job # NoJob
    /\ LET k == job.step + 1
           last == k = CallsOf(job.op)
           tokens == IF job.caller = "persistSession" THEN SessionTokens(job.args)
                     ELSE job.args
       IN /\ Commit(CASE job.op = "set" -> SetCall(Mem, tokens, k)
                      [] job.op = "clear" -> ClearCall(Mem, k)
                      [] OTHER -> authStorage_saveVault(Mem, job.args))
          /\ job' = IF last THEN NoJob ELSE [job EXCEPT !.step = k]
          /\ user' = IF ~last THEN user
                     ELSE IF job.caller = "handleLogout" THEN Null
                     ELSE IF job.caller = "persistSession"
                     THEN Obj(<< <<"id", Get(job.args, "userId")>>,
                                 <<"role", Get(job.args, "role")>>,
                                 <<"email", Get(job.args, "email")>>,
                                 <<"pseudo", Get(job.args, "pseudo")>> >>)
                     ELSE user
          /\ ctxPatientVault' =
                 IF ~last THEN ctxPatientVault
                 ELSE IF job.caller = "handleLogout" THEN Null
                 ELSE IF job.caller = "persistSession" /\ ~Falsy(Get(job.args, "patientVault"))
                 THEN Get(job.args, "patientVault")
                 ELSE ctxPatientVault
          /\ Done(job.caller, IF last THEN "ok" ELSE "begun")
    /\ UNCHANGED <<loading, srvAccount, sent, lastOpen, lastCase, lastPassword, hist>>
    /\ UNCHANGED exceptBoot

\* the process is killed, whatever is under way, and started again
BootKill ==
    /\ ~loading
    /\ job' = NoJob
    /\ user' = Null
    /\ ctxPatientVault' = Null
    /\ loading' = TRUE
    /\ accessToken' = Null
    /\ refreshToken' = Null
    /\ userId' = Null
    /\ userPseudo' = Null
    /\ patientVault' = Null
    /\ Done("restart", "none")
    /\ UNCHANGED <<store, srvAccount, sent, lastOpen, lastCase, lastPassword, hist>>
    /\ UNCHANGED exceptBoot

BootNext ==
    \/ RestoreSession
    \/ \E n \in 1..MaxIssued : \E data \in {NetSession(n), PsySession(n)} : BootLogin(data)
    \/ \E n \in 1..MaxIssued : BootRefresh(n)
    \/ BootGiveUp
    \/ BootLogout
    \/ \E form \in NetForms, t \in Clock, r \in KeyEntropy : BootSave(form, t, r)
    \/ BootStep
    \/ BootKill

----------------------------------------------------------------------------
(* What the other specifications leave untouched *)

BootIdle == job = NoJob

SchedIdle ==
    /\ appts = <<>>
    /\ slots = [s \in SlotIds |-> "free"]
    /\ selected = Null
    /\ available = {}
    /\ modal = FALSE
    /\ schedOp = [op |-> "none", end |-> "none", appt |-> 0, slot |-> 0]

RestIdle == NetIdle /\ BootIdle /\ SchedIdle

----------------------------------------------------------------------------
(* PatientAppointmentsScreen and SearchPsyScreen over the backend's        *)
(* appointments and availabilities. The backend is not part of the         *)
(* application: a request it accepts does what its route says, a request   *)
(* it refuses or that does not reach it changes nothing.                   *)

Statuses == {"PENDING", "CONFIRMED", "CANCELLED", "DONE"}

\* an Appointment of the patient: its availability, its status and whether
\* it starts in less than 24 hours
Appointment(slot, status, soon) == [slot |-> slot, status |-> status, soon |-> soon]

AppointmentIds == 1..Len(appts)

\* selectedAppointment, of which the handlers read the id
Selected(id) == <<"appt", id>>

SchedEnd(op, end, appt, slot) == [op |-> op, end |-> end, appt |-> appt, slot |-> slot]

\* POST /appointments/book: the availability becomes the patient's, or the
\* request fails
bookAppointment(availabilityId, accepted) ==
    IF accepted /\ slots[availabilityId] = "free" /\ Len(appts) < MaxAppointments
    THEN /\ appts' = Append(appts, Appointment(availabilityId, "PENDING", FALSE))
         /\ slots' = [slots EXCEPT ![availabilityId] = "mine"]
    ELSE UNCHANGED <<appts, slots>>

booked(availabilityId, accepted) ==
    accepted /\ slots[availabilityId] = "free" /\ Len(appts) < MaxAppointments

\* PATCH /appointments/:id/cancel, on the backend's state b
cancelAppointment(b, id, accepted) ==
    IF accepted /\ b.appts[id].status \in {"PENDING", "CONFIRMED"}
    THEN [appts |-> [b.appts EXCEPT ![id].status = "CANCELLED"],
          slots |-> [b.slots EXCEPT ![b.appts[id].slot] = "free"]]
    ELSE b

cancelled(id, accepted) == accepted /\ appts[id].status \in {"PENDING", "CONFIRMED"}

\* renderItem: the Modifier and Annuler buttons are shown
canModifyOrCancel(item) ==
    LET isFuture == item.status \notin {"CANCELLED", "DONE"}
        isConfirmed == item.status = "CONFIRMED"
    IN isFuture /\ (~isConfirmed \/ ~item.soon)

\* SearchPsyScreen.handleBook, once the patient has validated
handleBook(slotId, accepted) ==
    /\ ~modal
    /\ bookAppointment(slotId, accepted)
    /\ schedOp' = SchedEnd("handleBook", IF booked(slotId, accepted) THEN "ok" ELSE "catch",
                           0, slotId)
    /\ UNCHANGED <<selected, available, modal, exceptSched>>

\* another patient books an availability of the psychologist
OtherBooks(s) ==
    /\ slots[s] = "free"
    /\ slots' = [slots EXCEPT ![s] = "other"]
    /\ schedOp' = SchedEnd("other", "ok", 0, s)
    /\ UNCHANGED <<appts, selected, available, modal, exceptSched>>

\* the psychologist confirms a pending appointment
PsyConfirms(id) ==
    /\ id \in AppointmentIds
    /\ appts[id].status = "PENDING"
    /\ appts' = [appts EXCEPT ![id].status = "CONFIRMED"]
    /\ schedOp' = SchedEnd("confirm", "ok", id, 0)
    /\ UNCHANGED <<slots, selected, available, modal, exceptSched>>

\* time passes: an appointment now starts in less than 24 hours
Approach(id) ==
    /\ id \in AppointmentIds
    /\ ~appts[id].soon
    /\ appts[id].status \in {"PENDING", "CONFIRMED"}
    /\ appts' = [appts EXCEPT ![id].soon = TRUE]
    /\ schedOp' = SchedEnd("time", "ok", id, 0)
    /\ UNCHANGED <<slots, selected, available, modal, exceptSched>>

\* handleCancel, once the patient has answered "Oui, annuler"
handleCancel(id, accepted) ==
    /\ ~modal
    /\ id \in AppointmentIds
    /\ canModifyOrCancel(appts[id])
    /\ LET appt == appts[id]
           b == cancelAppointment([appts |-> appts, slots |-> slots], id, accepted)
       IN IF appt.status = "CONFIRMED" /\ appt.soon
          THEN /\ schedOp' = SchedEnd("handleCancel", "refused", id, 0)
               /\ UNCHANGED <<appts, slots>>
          ELSE /\ appts' = b.appts
               /\ slots' = b.slots
               /\ schedOp' = SchedEnd("handleCancel",
                                      IF cancelled(id, accepted) THEN "ok" ELSE "catch", id, 0)
    /\ UNCHANGED <<selected, available, modal, exceptSched>>

\* openReschedule: the modal opens on the availabilities that are free now
openReschedule(id, loaded) ==
    /\ ~modal
    /\ id \in AppointmentIds
    /\ canModifyOrCancel(appts[id])
    /\ LET appt == appts[id]
       IN IF appt.status = "CONFIRMED" /\ appt.soon
          THEN /\ schedOp' = SchedEnd("openReschedule", "refused", id, 0)
               /\ UNCHANGED <<selected, available, modal>>
          ELSE /\ selected' = Selected(id)
               /\ modal' = loaded
               /\ available' = IF loaded THEN {s \in SlotIds : slots[s] = "free"} ELSE {}
               /\ schedOp' = SchedEnd("openReschedule", IF loaded THEN "ok" ELSE "catch",
                                      id, 0)
    /\ UNCHANGED <<appts, slots, exceptSched>>

\* confirmReschedule: cancel the selected appointment, then book the new
\* availability; the first request that fails ends the handler
confirmReschedule(newSlotId, cancelAccepted, bookAccepted) ==
    /\ modal
    /\ selected # Null
    /\ newSlotId \in available
    /\ LET id == selected[2]
           b == cancelAppointment([appts |-> appts, slots |-> slots], id, cancelAccepted)
           free == bookAccepted /\ b.slots[newSlotId] = "free"
                   /\ Len(b.appts) < MaxAppointments
       IN IF ~cancelled(id, cancelAccepted)
          THEN /\ schedOp' = SchedEnd("confirmReschedule", "cancel failed", id, newSlotId)
               /\ UNCHANGED <<appts, slots, modal>>
          ELSE IF ~free
          THEN /\ appts' = b.appts
               /\ slots' = b.slots
               /\ schedOp' = SchedEnd("confirmReschedule", "book failed", id, newSlotId)
               /\ UNCHANGED modal
          ELSE /\ appts' = Append(b.appts, Appointment(newSlotId, "PENDING", FALSE))
               /\ slots' = [b.slots EXCEPT ![newSlotId] = "mine"]
               /\ schedOp' = SchedEnd("confirmReschedule", "ok", id, newSlotId)
               /\ modal' = FALSE
    /\ UNCHANGED <<selected, available, exceptSched>>

\* the modal is dismissed, or its Fermer button pressed
dismissReschedule ==
    /\ modal
    /\ modal' = FALSE
    /\ schedOp' = SchedEnd("dismiss", "ok", 0, 0)
    /\ UNCHANGED <<appts, slots, selected, available, exceptSched>>

SchedNext ==
    \/ \E s \in SlotIds, accepted \in BOOLEAN : handleBook(s, accepted)
    \/ \E s \in SlotIds : OtherBooks(s)
    \/ \E id \in 1..MaxAppointments : PsyConfirms(id)
    \/ \E id \in 1..MaxAppointments : Approach(id)
    \/ \E id \in 1..MaxAppointments, accepted \in BOOLEAN : handleCancel(id, accepted)
    \/ \E id \in 1..MaxAppointments, loaded \in BOOLEAN : openReschedule(id, loaded)
    \/ \E s \in SlotIds, cancelAccepted, bookAccepted \in BOOLEAN :
          confirmReschedule(s, cancelAccepted, bookAccepted)
    \/ dismissReschedule

----------------------------------------------------------------------------

Next ==
    \/ RestoreSession
    \/ AppRestart
    \/ \E email \in Emails, password \in Passwords, pseudo \in Pseudos, role \in Roles,
          profile \in Profiles, rSalt, rKey, rIv1 \in KeyEntropy, rIv2 \in Entropy,
          n \in TokenIds, accepted \in BOOLEAN :
          handleRegister(email, password, pseudo, role, profile, rSalt, rKey, rIv1, rIv2,
                         n, accepted)
    \/ \E email \in Emails \cup {PsyEmail}, password \in Passwords, n \in TokenIds,
          reachable \in BOOLEAN, c \in LoginCases :
          handleLogin(email, password, n, reachable, c)
    \/ \E accepted \in BOOLEAN : handleLogout(accepted)
    \/ \E form \in Forms, t \in Clock, r \in Entropy, accepted, echoed \in BOOLEAN :
          onSave(form, t, r, accepted, echoed)
    \/ \E accepted \in BOOLEAN : LoadProfile(accepted)
    \/ \E content \in Contents, r \in KeyEntropy, accepted \in BOOLEAN :
          handleSendText(content, r, accepted)
    \/ \E file \in Files, rFile, rMsg \in KeyEntropy, uploaded, accepted \in BOOLEAN :
          processFileAndSend(file, rFile, rMsg, uploaded, accepted)

Init == AppInit /\ LabIdle /\ IvIdle /\ KeyIdle /\ ChatIdle /\ FnIdle /\ SendIdle /\ RestIdle

Spec == Init /\ [][Next]_vars

VaultNext ==
    \/ \E rSalt, rKey, rIv1, rIv2 \in Entropy : LabBuild(rSalt, rKey, rIv1, rIv2)
    \/ \E c \in LabCases : LabDamage(c)
    \/ \E password \in Passwords : LabOpen(password)

VaultInit == LabInit /\ AppInit /\ IvIdle /\ KeyIdle /\ ChatIdle /\ FnIdle /\ SendIdle /\ RestIdle

SpecVault == VaultInit /\ [][VaultNext]_vars

IvInit == IvIdle /\ AppInit /\ LabIdle /\ KeyIdle /\ ChatIdle /\ FnIdle /\ SendIdle /\ RestIdle

SpecIv == IvInit /\ [][IvNext]_vars

KeyInit == KeyStart /\ AppInit /\ LabIdle /\ IvIdle /\ ChatIdle /\ FnIdle /\ SendIdle /\ RestIdle

SpecKey == KeyInit /\ [][KeyNext]_vars

ChatInit == ChatStart /\ AppInit /\ LabIdle /\ IvIdle /\ KeyIdle /\ FnIdle /\ SendIdle /\ RestIdle

SpecChat == ChatInit /\ [][ChatNext]_vars

FnInit == FnStart /\ AppInit /\ LabIdle /\ IvIdle /\ KeyIdle /\ ChatIdle /\ SendIdle /\ RestIdle

SpecFn == FnInit /\ [][FnNext]_vars

SendInit == AppInit /\ LabIdle /\ IvIdle /\ KeyIdle /\ ChatIdle /\ FnIdle /\ SendStart /\ RestIdle

SpecSend == SendInit /\ [][SendNext]_vars

NetInit == AppInit /\ LabIdle /\ IvIdle /\ KeyIdle /\ ChatIdle /\ FnIdle /\ SendIdle /\ RestIdle

SpecNet == NetInit /\ [][NetNext]_vars

BootInit == AppInit /\ LabIdle /\ IvIdle /\ KeyIdle /\ ChatIdle /\ FnIdle /\ SendIdle /\ RestIdle

SpecBoot == BootInit /\ [][BootNext]_vars

SchedInit == AppInit /\ LabIdle /\ IvIdle /\ KeyIdle /\ ChatIdle /\ FnIdle /\ SendIdle /\ RestIdle

SpecSched == SchedInit /\ [][SchedNext]_vars

Opened == labPc = "opened"
OpenedWith(cases) == Opened /\ labCase \in cases
RightPassword == labOpenPw = labPw
OpenedKey == Get(labRes[2], "masterKeyB64")
OpenedProfile == Get(labRes[2], "profile")
BuiltKey == Get(labBuilt, "masterKeyB64")

\* C1: opening a freshly built vault with the password that built it returns
\* the profile document it was built from and the master key it was built with.
C1_RoundTrip ==
    (OpenedWith({"intact"}) /\ RightPassword)
        => (IsOk(labRes) /\ OpenedProfile = labDoc /\ OpenedKey = BuiltKey)

C1_Witness ==
    /\ OpenedWith({"intact"}) /\ RightPassword
    /\ labDoc # EmptyObj
    /\ IsOk(labRes) /\ OpenedProfile = labDoc

\* C2: opening a freshly built vault with any other password throws the
\* AES-GCM authentication failure and yields neither master key nor profile.
C2_WrongPassword ==
    (OpenedWith({"intact"}) /\ ~RightPassword)
        => (IsThrow(labRes) /\ labRes[2] = GcmError
            /\ OpenedKey = Undefined /\ OpenedProfile = Undefined)

C2_Witness == OpenedWith({"intact"}) /\ ~RightPassword /\ IsThrow(labRes)

\* C3: with the right password, a well-formed encryptedProfile envelope whose
\* content is corrupt still opens: the master key comes back, profile is null.
C3_CorruptProfileContent ==
    (OpenedWith(ProfileContentCases) /\ RightPassword)
        => (IsOk(labRes) /\ OpenedKey = BuiltKey /\ OpenedProfile = Null)

\* C4: with the right password, an encryptedProfile that is malformed or
\* absent still opens: the master key comes back, profile is null.
C4_MalformedProfileBlob ==
    (OpenedWith(ProfileBlobCases) /\ RightPassword)
        => (IsOk(labRes) /\ OpenedKey = BuiltKey /\ OpenedProfile = Null)

C4_Witness ==
    /\ OpenedWith({"profile_no_data"}) /\ RightPassword
    /\ IsOk(labRes) /\ OpenedProfile = Null /\ labDoc # EmptyObj

\* what decryptPatientVault throws for a wrong password on the intact vault
WrongPasswordFailure ==
    decryptPatientVault(CHOOSE p \in Passwords : p # labPw, Omit(labBuilt, "masterKeyB64"))

\* C10: a malformed salt or encryptedMasterKey fails with the very error a
\* wrong password or a tampered ciphertext fails with.
C10_NoCauseRevealed ==
    OpenedWith(MasterKeyFormatCases \cup SaltFormatCases \cup MasterKeyContentCases)
        => (IsThrow(labRes) /\ labRes = WrongPasswordFailure)

\* C11: when salt or encryptedMasterKey is null, absent or empty,
\* decryptPatientVault throws the incomplete-vault error whatever the
\* password, and yields neither master key nor profile.
C11_MissingFieldFails ==
    OpenedWith(MissingCases)
        => (IsThrow(labRes) /\ labRes[2] = VaultIncompleteError
            /\ OpenedKey = Undefined /\ OpenedProfile = Undefined)

C11_Witness ==
    /\ OpenedWith({"salt_empty", "emk_absent"}) /\ RightPassword
    /\ labRes = Throw(VaultIncompleteError)

----------------------------------------------------------------------------
(* Claims about the session *)

VaultKey(v) == Get(v, "masterKeyB64")

LoggedInIntact ==
    /\ lastOp = "login" /\ lastResult = "ok" /\ lastCase = "intact"
    /\ hist.password # Undefined /\ lastPassword = hist.password
    /\ Get(user, "email") = Get(srvAccount, "email")

\* C5: after registering, saving the profile any number of times, logging out
\* and logging in again with the same password, with the backend returning
\* the vault fields it stored, the vault in the auth context has the profile
\* saved last (the registration profile if none) and the registration key.
C5_LoginRestoresVault ==
    LoggedInIntact
        => /\ Get(ctxPatientVault, "profile") = hist.profile
           /\ VaultKey(ctxPatientVault) = hist.masterKeyB64

C5_Witness ==
    /\ LoggedInIntact
    /\ HasKey(hist.profile, "updatedAt")
    /\ Get(ctxPatientVault, "profile") = hist.profile

\* what the backend can read in a value without holding any key
RECURSIVE Exposed(_)
RECURSIVE ExposedIn(_, _)
ExposedIn(seq, step) ==
    IF Len(seq) < step THEN {}
    ELSE Exposed(seq[step]) \cup ExposedIn(SubSeq(seq, step + 1, Len(seq)), step)
Exposed(v) ==
    CASE v[1] = "obj" -> UNION { Exposed(v[2][i][2]) : i \in DOMAIN v[2] }
      [] v[1] = "jsontext" -> {v} \cup ExposedIn(v[2], 2)
      [] v[1] \in {"b64", "utf8"} -> {v} \cup Exposed(v[2])
      [] OTHER -> {v}

IsSecret(v) ==
    \/ v \in Passwords
    \/ v[1] = "rnd" /\ v[2] = KEY_LEN

BodyKeys(req) == { req[4][2][i][1] : i \in DOMAIN req[4][2] }

AllowedKeys(url) ==
    CASE url = "/auth/register" -> {"email", "passwordHash", "pseudo", "role", "salt",
                                    "encryptedMasterKey", "encryptedProfile"}
      [] url = "/auth/login" -> {"email", "passwordHash"}
      [] url = "/patients/me" -> {"encryptedProfile"}
      [] url = "/chat/send" -> {"recipientId", "encryptedContent", "iv", "attachmentPath"}
      [] url = "/chat/attachment" -> {"file"}
      [] OTHER -> {}

\* C6: no request carries the password or the plaintext master key in a form
\* the backend can read, and register, login and profile update carry only
\* their documented fields.
C6_NoSecretLeaves ==
    \A i \in DOMAIN sent :
        /\ \A x \in Exposed(sent[i][4]) : ~IsSecret(x)
        /\ BodyKeys(sent[i]) \subseteq AllowedKeys(sent[i][3])

C6_Witness ==
    /\ lastOp = "register" /\ lastResult = "ok"
    /\ VaultKey(ctxPatientVault) # Undefined
    /\ Len(sent) = 1 /\ sent[1][3] = "/auth/register"
    /\ "encryptedMasterKey" \in BodyKeys(sent[1])

\* C7: when logout has finished, whether POST /auth/logout succeeded or not,
\* vault and tokens are gone from the auth context, from the module
\* variables and from SecureStore, and user is null.
C7_LogoutClears ==
    lastOp = "logout"
        => /\ user = Null /\ ctxPatientVault = Null
           /\ accessToken = Null /\ refreshToken = Null /\ patientVault = Null
           /\ store.accessToken = Null /\ store.refreshToken = Null
           /\ store.patientVault = Null

C7_Witness ==
    /\ lastOp = "logout" /\ lastResult = "throw"
    /\ hist.masterKeyB64 # Undefined
    /\ store = EmptyStore /\ patientVault = Null

SaveSucceeds == lastOp' = "save" /\ lastResult' = "ok"

OtherVaultKeys(v) ==
    { v[2][i][1] : i \in DOMAIN v[2] } \ {"encryptedProfile", "profile"}

\* C8: a successful profile save changes, in the local vault, encryptedProfile
\* and the cached profile only; master key, salt and encryptedMasterKey stay,
\* and the new encryptedProfile decrypts under the unchanged master key to
\* the cached profile.
C8_SaveFrame ==
    [][SaveSucceeds =>
        /\ \A k \in OtherVaultKeys(ctxPatientVault) \cup OtherVaultKeys(ctxPatientVault')
                    \cup {"masterKeyB64", "salt", "encryptedMasterKey"} :
               Get(ctxPatientVault', k) = Get(ctxPatientVault, k)
        /\ VaultKey(ctxPatientVault) # Undefined
        /\ decryptProfileWithMasterKey(VaultKey(ctxPatientVault),
                                       Get(ctxPatientVault', "encryptedProfile"))
               = Ok(Get(ctxPatientVault', "profile"))
        /\ patientVault' = ctxPatientVault'
        /\ store'.patientVault = JSON_stringify(ctxPatientVault')
        /\ UNCHANGED <<user, accessToken, refreshToken, userId, userPseudo>>
      ]_vars

\* a save that succeeded in a process no password was typed into
C8_Witness ==
    /\ lastOp = "save" /\ lastResult = "ok"
    /\ lastPassword = Undefined
    /\ VaultKey(ctxPatientVault) = hist.masterKeyB64
    /\ Get(ctxPatientVault, "profile") = hist.profile

\* the vault SecureStore holds, parsed
StoredVault == IF Falsy(store.patientVault) THEN Null ELSE JSON_parse(store.patientVault)[2]

\* the plaintext master key the operation that ran last produced, if any
ProducedKey ==
    IF lastOp = "register" THEN hist.masterKeyB64
    ELSE IF lastOp = "login" /\ IsOk(lastOpen) THEN VaultKey(lastOpen[2])
    ELSE Undefined

SessionKeys == { VaultKey(ctxPatientVault), VaultKey(patientVault), VaultKey(StoredVault) }

C13_FreshIv ==
    /\ \A i \in DOMAIN encLog :
           /\ encLog[i][1] = "gcm"
           /\ encLog[i][3][1] = "rnd" /\ encLog[i][3][2] = IV_LEN
    /\ \A i, j \in DOMAIN encLog :
           (i < j /\ encLog[i][2] = encLog[j][2]) => encLog[i][3] # encLog[j][3]

\* master-key wrap, profile at registration, a profile save, a text message
\* and both encryptions of an attachment have all taken place
C13_Witness ==
    /\ \E i, j \in DOMAIN encLog :
           i < j /\ encLog[i][2] = fromBase64(ivKey) /\ encLog[j][2] = fromBase64(ivKey)
    /\ Cardinality({ i \in DOMAIN encLog :
                       encLog[i][2] = conversationKey(AccountId, PeerId) }) >= 3
    /\ \E i \in DOMAIN encLog : encLog[i][4][1] = "rnd"

\* C14: the key user a derives for peer b is the key user b derives for peer
\* a, in the conversation screen and in the thread-list preview alike.
C14_KeySymmetric ==
    /\ keyPc \in {"conversation", "threads"}
          => (screenKeys.ab # Null /\ screenKeys.ab = screenKeys.ba)
    /\ keyPc = "threads"
          => (previewKeys.ab = previewKeys.ba /\ previewKeys.ab = screenKeys.ab)

\* two different identifiers that sort() has to swap on a's side
C14_Witness ==
    /\ keyPc = "threads"
    /\ SeqLess(ids.b[2], ids.a[2])
    /\ screenKeys.ab = previewKeys.ba

\* C15: the material hashed for the pair (a, b) is the material hashed for
\* the pair (c, d) only if the two pairs are the same two identifiers.
C15_KeyOfExactlyTwo ==
    (keyPc \in {"conversation", "threads"} /\ screenKeys.materialAB = screenKeys.materialCD)
        => {ids.a, ids.b} = {ids.c, ids.d}

Rendered == chatPc \in {"rendered", "listed", "downloaded"}
Listed == chatPc \in {"listed", "downloaded"}
Failing(i) == posted[i].damage \in DecryptFailureCases

\* C16: whatever happened to one message, rendering the conversation throws
\* nothing and shows every message that was not damaged as it was sent.
C16_FailureIsPerMessage ==
    Rendered
        => /\ IsOk(shown) /\ Len(shown[2]) = Len(messages)
           /\ \A i \in DOMAIN posted : ~Failing(i) => shown[2][i] = posted[i].text

\* a message that fails to decrypt, followed by one that is shown
C16_Witness ==
    /\ Rendered /\ IsOk(shown)
    /\ \E i, j \in DOMAIN posted :
           /\ i < j /\ Failing(i) /\ ~Failing(j)
           /\ shown[2][i] = Unreadable /\ shown[2][j] = posted[j].text

\* C17: a message that fails to decrypt is shown as the neutral placeholder in
\* the conversation, and the thread list shows neither its ciphertext nor an
\* error for it.
C17_PlaceholderEverywhere ==
    /\ Rendered => (IsOk(shown) /\ \A i \in DOMAIN posted : Failing(i) => shown[2][i] = Unreadable)
    /\ (Listed /\ Failing(Len(posted)))
          => (IsOk(subtitle) /\ subtitle[2] # Get(messages[Len(messages)], "encryptedContent"))

\* what the reader finds in the body of message i
MetaOf(i) == getAttachmentMeta(conversationKey(PeerId, AccountId), messages[i])

\* C18: for an attachment that was sent, the uploaded blob is the file
\* encrypted under the conversation key with the IV of the first draw, the
\* message is encrypted with the IV of the second draw, the message body holds
\* the file name, the MIME type and the IV of the blob, and the reader's
\* download yields the bytes of the file.
C18_AttachmentRoundTrip ==
    \A i \in DOMAIN posted :
        (posted[i].kind = "file" /\ ~Failing(i))
            => /\ fromBase64(blobs[i]) =
                      gcmEncrypt(conversationKey(AccountId, PeerId),
                                 getRandomBytes(IV_LEN, posted[i].rFile), posted[i].file.bytes)
               /\ Get(messages[i], "iv") = toBase64(getRandomBytes(IV_LEN, posted[i].rMsg))
               /\ Get(MetaOf(i), "filename") = posted[i].file.name
               /\ Get(MetaOf(i), "mimeType")
                      = OrElse(posted[i].file.mimeType, Str("application/octet-stream"))
               /\ fromBase64(Get(MetaOf(i), "fileIv")) = fromBase64(blobs[i])[3]
               /\ (chatPc = "downloaded" /\ downloaded[2] = i /\ downloaded[3])
                      => /\ downloaded[1] = "shared"
                         /\ fromBase64(Get(downloaded[4], "content")) = posted[i].file.bytes

\* an attachment whose two IVs differ, downloaded and decrypted by the reader
C18_Witness ==
    /\ chatPc = "downloaded" /\ downloaded[1] = "shared"
    /\ posted[downloaded[2]].rFile # posted[downloaded[2]].rMsg
    /\ fromBase64(Get(downloaded[4], "content")) = posted[downloaded[2]].file.bytes

SameAddress(e1, e2) == toLowerCase(trim(e1)) = toLowerCase(trim(e2))

\* C19: derivePasswordHash gives one hash for two e-mail addresses that are
\* equal once trimmed and lowercased, the same hash when called again, and
\* another hash for another password.
C19_HashNormalisesEmail ==
    fnPc = "hashed"
        => /\ SameAddress(fnArgs.e1, fnArgs.e2) => hashes.e1pw1 = hashes.e2pw1
           /\ hashes.again = hashes.e1pw1
           /\ fnArgs.pw1 # fnArgs.pw2 => hashes.e1pw1 # hashes.e1pw2

C19_Witness ==
    /\ fnPc = "hashed"
    /\ fnArgs.e1 # fnArgs.e2 /\ SameAddress(fnArgs.e1, fnArgs.e2)
    /\ hashes.e1pw1 = hashes.e2pw1
    /\ fnArgs.pw1 # fnArgs.pw2 /\ hashes.e1pw1 # hashes.e1pw2

\* C20: decryptGCM under the key, with the iv and the ciphertext encryptGCM
\* returned for a plaintext, returns that plaintext.
C20_GcmRoundTrip ==
    fnPc = "decrypted" => unsealed = Ok(fnArgs.plaintext)

C20_Witness ==
    /\ fnPc = "decrypted"
    /\ fnArgs.plaintext = getRandomBytes(KEY_LEN, 2)
    /\ unsealed = Ok(fnArgs.plaintext)

\* C9: a login in which opening the patient vault failed ends in a failure
\* for its caller.
C9_OpenFailureSurfaced ==
    (lastOp = "login" /\ IsThrow(lastOpen)) => lastResult = "throw"

----------------------------------------------------------------------------
(* C21 *)

ScreenKeyNow == screenKey(scrPeer, scrUser, inbox)

\* the request carries only what was encrypted under key: a message body whose
\* iv field is the IV its content was encrypted with, or an encrypted file
SealedRequest(req, key) ==
    LET body == req[4]
        content == Get(body, "encryptedContent")
        file == Get(body, "file")
    IN CASE req[3] = "/chat/send" ->
                /\ content[1] = "b64" /\ content[2][1] = "gcm" /\ content[2][2] = key
                /\ Get(body, "iv") = toBase64(content[2][3])
         [] req[3] = "/chat/attachment" ->
                file[1] = "b64" /\ file[2][1] = "gcm" /\ file[2][2] = key
         [] OTHER -> FALSE

\* C21: whatever a step of the conversation screen sends is a message or a
\* file encrypted under the conversation key the screen holds, the message
\* with the IV used for it, and a screen that holds no key sends nothing.
C21_OnlyCiphertextSent ==
    [][\A i \in DOMAIN wire' :
           i \notin DOMAIN wire =>
               ~Falsy(ScreenKeyNow) /\ SealedRequest(wire'[i], ScreenKeyNow)]_vars

\* a text and an attachment were sent, and a send was then asked of a screen
\* that can derive no key
C21_Witness ==
    /\ \E i, j \in DOMAIN wire : wire[i][3] = "/chat/send" /\ wire[j][3] = "/chat/attachment"
    /\ \E i \in DOMAIN wire :
           /\ wire[i][3] = "/chat/send"
           /\ Get(wire[i][4], "attachmentPath") = Undefined
    /\ scrPc = "open"
    /\ Falsy(ScreenKeyNow)
    /\ scrOp \in {Ended("sendFile", "return"), Ended("sendText", "return")}

----------------------------------------------------------------------------
(* C22 *)

InCache(uri) == \E f \in cacheDir : f.uri = uri

\* C22: once processFileAndSend or handleDownload has ended, at its end or at
\* a step that threw, none of the files it wrote to the cache directory exists.
C22_TempFilesDeleted ==
    scrOp.op \in {"sendFile", "download"} => \A uri \in written : ~InCache(uri)

----------------------------------------------------------------------------
(* C23 *)

\* the answer to the first send of request i has been handled
Handled(i) == reqs[i].statuses # <<>> /\ ~(reqs[i].pc = "answered" /\ reqs[i].sends = 1)

\* C23: a request answered 401 while a refresh token is held makes one
\* refresh call; it is sent a second time only after that call succeeded, then
\* once and with the new access token; a second 401 rejects it without a
\* refresh; a failed refresh call rejects it without another; no request is
\* sent more than twice or refreshes more than once.
C23_OneRefreshOneRetry ==
    \A i \in Slots :
        LET q == reqs[i]
        IN /\ q.refreshes <= 1
           /\ q.sends <= 2
           /\ (Handled(i) /\ q.statuses[1] = 401) =>
                  \/ q.refreshes = 1 /\ ~Falsy(q.bearer)
                  \/ q.refreshes = 0 /\ q.forced /\ q.result = "rejected" /\ Falsy(q.bearer)
           /\ (Handled(i) /\ q.statuses[1] # 401) => q.refreshes = 0 /\ q.sends = 1
           /\ q.sends = 2 => q.refreshes = 1 /\ q.why = "granted"
                             /\ q.auth = Jwt("access", q.granted)
           /\ (q.why = "granted" /\ q.pc # "refreshAnswered") => q.sends = 2
           /\ (q.why \notin {"none", "granted"} /\ q.pc # "refreshAnswered") =>
                  q.pc = "settled" /\ q.result = "rejected" /\ q.sends = 1
           /\ (q.pc = "settled" /\ Len(q.statuses) = 2 /\ q.statuses[2] # 200) =>
                  q.result = "rejected" /\ q.refreshes = 1 /\ ~q.forced

\* a request was refreshed, sent again, answered 401 again and rejected
C23_Witness ==
    \E i \in Slots :
        /\ reqs[i].pc = "settled"
        /\ reqs[i].statuses = <<401, 401>>
        /\ reqs[i].result = "rejected"

----------------------------------------------------------------------------
(* C24 *)

\* the response interceptor of request i calls authStorage.clear in this step
ForcesLogout(i) == reqs'[i].forced /\ ~reqs[i].forced

\* C24: when the response interceptor gives up a session, because the refresh
\* call failed or because a 401 came with no refresh token held, tokens and
\* vault are gone from the module variables and from secure storage, the
\* request is rejected to its caller, and the auth context's user is null.
C24_ForcedLogout ==
    [][\A i \in Slots :
           ForcesLogout(i) =>
               /\ accessToken' = Null /\ refreshToken' = Null /\ patientVault' = Null
               /\ store'.accessToken = Null /\ store'.refreshToken = Null
               /\ store'.patientVault = Null
               /\ reqs'[i].result = "rejected"
               /\ user' = Null]_vars

----------------------------------------------------------------------------
(* C25 *)

\* every request followed was sent with the same access token, was answered
\* 401 and has settled; a refresh call of theirs was granted, and those that
\* were not were refused for presenting a refresh token already exchanged;
\* nobody logged out
RefreshEpisodeOver ==
    /\ ~loggedOut
    /\ \A i \in Slots :
           /\ reqs[i].pc = "settled"
           /\ reqs[i].kind \in {"get", "save"}
           /\ reqs[i].firstAuth = reqs[1].firstAuth
           /\ reqs[i].statuses[1] = 401
           /\ reqs[i].why \in {"granted", "used"}
    /\ \E i \in Slots : reqs[i].why = "granted"

\* the number of the pair the last granted refresh call returned
LastGranted ==
    CHOOSE g \in 0..MaxIssued + 1 :
        /\ \E i \in Slots : reqs[i].granted = g
        /\ \A i \in Slots : reqs[i].granted <= g

\* C25: once requests answered 401 for the same access token have all
\* settled and a refresh call of theirs was granted, the session is present
\* and holds the tokens that refresh call returned, in the module variables
\* and in secure storage.
C25_RefreshedSessionKept ==
    RefreshEpisodeOver =>
        /\ accessToken = Jwt("access", LastGranted)
        /\ refreshToken = Jwt("refresh", LastGranted)
        /\ store.accessToken = Jwt("access", LastGranted)
        /\ store.refreshToken = Jwt("refresh", LastGranted)
        /\ store.userRole # Null

----------------------------------------------------------------------------
(* C26 *)

\* C26: from the moment handleLogout has completed until the next login,
\* the module variables and secure storage hold no token and no vault.
C26_LoggedOutStaysEmpty ==
    loggedOut =>
        /\ accessToken = Null /\ refreshToken = Null /\ patientVault = Null
        /\ store.accessToken = Null /\ store.refreshToken = Null
        /\ store.patientVault = Null

----------------------------------------------------------------------------
(* C27 *)

\* the response interceptor of request i stores the tokens of a granted
\* refresh call in this step
StoresRefresh(i) ==
    /\ reqs[i].pc = "refreshAnswered" /\ reqs[i].status = 200
    /\ reqs'[i].pc = "flight"

\* C27: the step that stores refreshed tokens leaves userId, userPseudo and
\* patientVault in the module variables, and userRole, userId, userPseudo and
\* patientVault in secure storage, as they were.
C27_RefreshFrame ==
    [][\A i \in Slots :
           StoresRefresh(i) =>
               /\ userId' = userId /\ userPseudo' = userPseudo
               /\ patientVault' = patientVault
               /\ store'.userRole = store.userRole /\ store'.userId = store.userId
               /\ store'.userPseudo = store.userPseudo
               /\ store'.patientVault = store.patientVault]_vars

\* refreshed tokens were stored in a session that has a role, an id, a
\* pseudonym and a vault
C27_Witness ==
    /\ \E i \in Slots : reqs[i].sends = 2 /\ accessToken = Jwt("access", reqs[i].granted)
                        /\ store.refreshToken = Jwt("refresh", reqs[i].granted)
    /\ userId # Null /\ userPseudo # Null /\ patientVault # Null
    /\ store.userRole # Null /\ store.userId # Null /\ store.userPseudo # Null
    /\ store.patientVault # Null

----------------------------------------------------------------------------
(* C28 *)

\* what authStorage.load makes of the stored patientVault
StoredVaultValue ==
    IF store.patientVault = Null THEN Null ELSE JSON_parse(store.patientVault)[2]

\* C28: once authStorage.load has run and while no authStorage call is under
\* way, accessToken, refreshToken, userId, userPseudo and patientVault of the
\* module equal what secure storage holds under the same key, null when it
\* holds nothing.
C28_ModuleMirrorsStore ==
    (~loading /\ job = NoJob) =>
        /\ accessToken = store.accessToken
        /\ refreshToken = store.refreshToken
        /\ userId = store.userId
        /\ userPseudo = store.userPseudo
        /\ patientVault = StoredVaultValue

----------------------------------------------------------------------------
(* C29 *)

AllStored == store.userRole # Null /\ store.accessToken # Null /\ store.refreshToken # Null

----------------------------------------------------------------------------
(* C30 *)

\* C30: when confirmReschedule has ended, the appointment it was called for
\* is not cancelled or the availability it was called with is the patient's.
C30_NeverNeither ==
    schedOp.op = "confirmReschedule" =>
        \/ appts[schedOp.appt].status # "CANCELLED"
        \/ slots[schedOp.slot] = "mine"

====
